---------------------------- MODULE Spec2Model ----------------------------
(***************************************************************************)
(* portless: the route store (routes.ts), the daemon's route cache         *)
(* (cli.ts) and the proxy engine (proxy.ts) as state machines.             *)
(*                                                                         *)
(*   SpecStore  add/remove/load of the route store, one call at a time     *)
(*   SpecLock   add/remove of several processes, one system call per step, *)
(*              with the daemon's unlocked reload beside them              *)
(*   SpecProxy  one request or upgrade through handleRequest/handleUpgrade *)
(*   SpecLoop   a backend that sends every request back to the proxy       *)
(***************************************************************************)
EXTENDS Integers, Sequences, FiniteSets, TLC

(***************************************************************************)
(* Bounds of the model.                                                    *)
(***************************************************************************)
MaxPid == 2
\* The maxRetries that acquireLock is run with in SpecLock (LOCK_MAX_RETRIES
\* is its default).
MaxRetries == 2
\* SpecLoop counts the nested handlers of a looping request up to MaxDepth;
\* MaxDepth stands for MaxDepth or more.
MaxDepth == 8
\* The stream bytes each side of an upgraded connection sends.
MaxBytes == 2
\* The processes SpecDaemon can start; a pid is given to one process.
MaxDaemons == 3
\* The writes of routes.json by other processes while the daemon runs.
MaxWrites == 2
\* The jumps of the clock in SpecCerts.
MaxTicks == 3
\* The longest name typed in SpecNames, in characters.
MaxName == 4
\* The TLS handshakes for one deep name in SpecSni.
MaxHandshakes == 3
\* The bytes a client sends on a connection in SpecMux.
MaxStream == 3
\* The connections open at once on the daemon in SpecShut.
MaxConns == 2
\* The signals sent to the daemon in SpecShut.
MaxSignals == 2

Pids == 1..MaxPid
Hosts == {"app.localhost", "api.localhost"}
Ports == {4001, 4002}

VARIABLES
    file,         \* routes.json: [st, routes]
    alive,        \* the pids of the processes that exist
    lastCall,     \* SpecStore: the last add/remove call, its arguments and outcome
    expected,     \* SpecStore: hostname -> entry, by applying the successful calls in order
    lastLoad,     \* the last loadRoutes: what was on disk, who was alive, what it returned
    lock,         \* routes.lock: "absent", "fresh" or "stale" (mtime older than the threshold)
    pc,           \* SpecLock: where each process is in addRoute/removeRoute
    op,           \* SpecLock: the call each process makes
    tries,        \* SpecLock: acquireLock's loop counter i
    local,        \* SpecLock: the process's routes list (loaded, then to be saved)
    res,          \* SpecLock: how the call ended
    file0,        \* SpecLock: the file before any of the calls
    cachedRoutes, \* the daemon's cachedRoutes, what the proxy's getRoutes() returns
    writing,      \* SpecLock: the write of routes.json in progress, if any
    lastRead,     \* SpecLock: the write that was in progress when the daemon last reloaded
    isTls,        \* SpecProxy: createProxyServer was given tls options
    req,          \* SpecProxy: the request or upgrade handled: [kind, conn, headers]
    stage,        \* SpecProxy: "idle", "forwarded" (proxyReq sent), "done"
    fetched,      \* SpecProxy: getRoutes() was called for the request
    resSet,       \* SpecProxy: the headers set on res with setHeader
    proxyReq,     \* SpecProxy: the request sent to the backend: [sent, port, headers]
    resp,         \* SpecProxy: what the handler answered: [by, status, headers, raw, upstream]
    depth,        \* SpecLoop: the proxy handlers the request is nested in
    heads,        \* SpecProxy: the response heads written to the client
    ended,        \* SpecProxy: the client's response was ended (or its socket closed)
    failure,      \* SpecProxy: "none", or the backend leg failed "before" / "after" the head
    toClient,     \* SpecProxy: what was written to an upgrade's client socket, in order
    toBackend,    \* SpecProxy: the bytes written to the backend after the upgrade request's head
    clientBuf,    \* SpecProxy: bytes the client sent that the proxy has not read yet
    backendBuf,   \* SpecProxy: bytes the backend sent on the upgraded socket, not read yet
    sent,         \* SpecProxy: how many stream bytes the client and the backend have sent
    pidFile,      \* SpecDaemon: proxy.pid of the state directory: [st, v]
    portFile,     \* SpecDaemon: proxy.port of the state directory: [st, v]
    procs,        \* SpecDaemon: pid -> [st, port], the processes that were daemons
    listener,     \* SpecDaemon: port -> the pid listening on it, 0 for none
    sigterm,      \* SpecDaemon: the pids a SIGTERM is on its way to
    stop,         \* SpecDaemon: the `proxy stop` in progress or last run
    runner,       \* SpecRunner: the `portless <name> <cmd>` process
    child,        \* SpecRunner: the command it spawned: [st, code, signal]
    watch,        \* SpecWatch: the daemon's watcher, timer and what it has read
    perm,         \* SpecMode: routes.json of the system state directory: [exists, mode, owner]
    lastWrite,    \* SpecMode: the last startProxyServer or saveRoutes: [op, uid, sudo, umask, denied]
    certNow,      \* SpecCerts: the time, in days, and the clock jumps made: [day, ticks]
    certDisk,     \* SpecCerts: the certificates of the state directory: [ca, server, host, nextId]
    tlsMem,       \* SpecCerts: the daemon's defaultCtx, cache and pending: [running, default, cache, pending]
    served,       \* SpecCerts: the certificate last put into service: [by, cert, caId, day]
    nameIn,       \* SpecNames: the text given to parseHostname, a sequence of characters
    nameOut,      \* SpecNames: what parseHostname did: [st, hostname]
    lockOwner,    \* SpecLock: the process whose mkdirSync made routes.lock, 0 for none or one that is gone
    acq,          \* SpecLock: per process, its call so far: mkdirSync calls, syncSleep calls, statSync found the lock stale or gone, it created or removed a lock directory
    hs,           \* SpecSni: per TLS handshake for the deep name: [st, gen, ctx, err, calls], and whether it came while nothing was cached (cold) and after a generation had failed (late)
    sniMem,       \* SpecSni: createSNICallback's cache and pending for the name: [cache, pending, made]
    gens,         \* SpecSni: per generateHostCertAsync call, named by the handshake that started it: its stage
    hostDisk,     \* SpecSni: the name's files in host-certs: [cert, readable]
    mux,          \* SpecMux: a connection accepted by the wrapper of the TLS-enabled proxy: [st, buf, eof, got, log, handed]
    legs,         \* SpecLegs: a proxied request or upgrade: [kind, phase, client, backend], the events emitted and not handled yet (ev), what ended it first (cause), the chunks piped to the backend (up) and to the client (down)
    shut          \* SpecShut: the daemon at its signals: its watcher, files, listener and exit

storeVars == <<file, alive, lastCall, expected, lastLoad>>
lockVars_NoCache == <<lock, pc, op, tries, local, res, file0, writing, lastRead>>
lockVars == <<lockVars_NoCache, cachedRoutes>>
outVars == <<heads, ended, failure>>
pipeVars == <<toClient, toBackend, clientBuf, backendBuf, sent>>
proxyVars == <<isTls, req, stage, fetched, resSet, proxyReq, resp, depth, outVars, pipeVars>>
daemonVars == <<pidFile, portFile, procs, listener, sigterm, stop>>
runVars == <<runner, child>>
watchVars == <<watch>>
modeVars == <<perm, lastWrite>>
certVars == <<certNow, certDisk, tlsMem, served>>
nameVars == <<nameIn, nameOut>>
holdVars == <<lockOwner, acq>>
sniVars == <<hs, sniMem, gens, hostDisk>>
muxVars == <<mux>>
legVars == <<legs>>
shutVars == <<shut>>
edgeVars == <<sniVars, muxVars, legVars, shutVars>>
edgeVars_NoSni == <<muxVars, legVars, shutVars>>
edgeVars_NoMux == <<sniVars, legVars, shutVars>>
edgeVars_NoLegs == <<sniVars, muxVars, shutVars>>
edgeVars_NoShut == <<sniVars, muxVars, legVars>>
baseVars == <<storeVars, lockVars, proxyVars, daemonVars, runVars, watchVars, modeVars, certVars, nameVars, holdVars>>
extVars == <<modeVars, certVars, nameVars, holdVars, edgeVars>>
cliVars == <<daemonVars, runVars, watchVars, extVars>>
cliVars_NoHold == <<daemonVars, runVars, watchVars, modeVars, certVars, nameVars, edgeVars>>
vars == <<storeVars, lockVars, proxyVars, cliVars>>

(***************************************************************************)
(* routes.json on disk.  "trunc" is the file between writeFileSync's open  *)
(* (O_TRUNC) and its write: it exists and holds zero bytes.                *)
(***************************************************************************)
FileMissing == [st |-> "missing", routes |-> <<>>]
FileTrunc == [st |-> "trunc", routes |-> <<>>]
FileOf(rs) == [st |-> "ok", routes |-> rs]

Route(h, port, pid) == [hostname |-> h, port |-> port, pid |-> pid]

isValidRoute(v) ==
    /\ v.hostname \in STRING
    /\ v.port \in Int
    /\ v.pid \in Int

\* process.kill(pid, 0) returns for a process that exists and throws ESRCH for
\* one that does not.  All processes run as one user (no EPERM).
isProcessAlive(pid, alv) == pid \in alv

\* JSON.parse of the file and the schema filter; [] for a missing file and
\* for a file that is not valid JSON (zero bytes included).
parsedRoutes(f) ==
    IF f.st = "ok" THEN SelectSeq(f.routes, isValidRoute) ELSE <<>>

loadRoutes_Unfiltered(f, alv) == parsedRoutes(f)

\* What loadRoutes returns.
loadRoutes(f, alv) ==
    LET Live(r) == isProcessAlive(r.pid, alv)
    IN  SelectSeq(parsedRoutes(f), Live)

\* The file after loadRoutes(persistCleanup): rewritten with the live entries
\* when some entry was dropped and the write succeeds.
loadRoutesFile(f, alv, persistCleanup, canWrite) ==
    IF /\ f.st = "ok"
       /\ persistCleanup
       /\ Len(loadRoutes(f, alv)) # Len(parsedRoutes(f))
       /\ canWrite
    THEN FileOf(loadRoutes(f, alv))
    ELSE f

HasHost(routes, h) == \E i \in 1..Len(routes) : routes[i].hostname = h

\* routes.find((r) => r.hostname === hostname): the first such entry.
FindHost(routes, h) ==
    routes[CHOOSE i \in 1..Len(routes) :
               /\ routes[i].hostname = h
               /\ \A j \in 1..(i - 1) : routes[j].hostname # h]

addRouteConflict_SamePid(routes, h, pid, force, alv) ==
    /\ HasHost(routes, h)
    /\ FindHost(routes, h).pid = pid
    /\ isProcessAlive(FindHost(routes, h).pid, alv)
    /\ ~force

\* addRoute's test for throwing RouteConflictError(hostname, existing.pid).
addRouteConflict(routes, h, pid, force, alv) ==
    /\ HasHost(routes, h)
    /\ FindHost(routes, h).pid # pid
    /\ isProcessAlive(FindHost(routes, h).pid, alv)
    /\ ~force

addRouteList_NoFilter(routes, h, port, pid) == Append(routes, Route(h, port, pid))

\* The list addRoute saves: the other hostnames' entries, then the new one.
addRouteList(routes, h, port, pid) ==
    LET Other(r) == r.hostname # h
    IN  Append(SelectSeq(routes, Other), Route(h, port, pid))

\* The list removeRoute saves.
removeRouteList(routes, h) ==
    LET Other(r) == r.hostname # h
    IN  SelectSeq(routes, Other)

(***************************************************************************)
(* The command line's variables while no command has run.                  *)
(***************************************************************************)
DaemonPorts == {1355, 8080}
NoFile == [st |-> "absent", v |-> 0]
Holds(v) == [st |-> "number", v |-> v]
NoProc == [st |-> "none", port |-> 0]
\* pc: "idle", "probe" (awaiting isProxyRunning), "kill", "done".  The other
\* fields record what the command found and did.
NoStop == [pc |-> "idle", port |-> 0, hadPidFile |-> FALSE, pid |-> 0,
           sawAlive |-> FALSE, sawProxy |-> FALSE, signalled |-> 0, removed |-> FALSE]

\* pc: "idle", "spawned", "exited".  registered: "none" before addRoute,
\* then "ok", "conflict" or "lockfail".  code: the exit code, -1 while running.
NoRunner == [pc |-> "idle", bypass |-> FALSE, wantForce |-> FALSE, hostname |-> "",
             port |-> 0, pid |-> 0, force |-> FALSE, registered |-> "none",
             held |-> FALSE, spawned |-> FALSE, inTable |-> FALSE, removals |-> 0,
             cause |-> "none", code |-> -1, took |-> 0, kept |-> TRUE]
NoChild == [st |-> "none", code |-> -1, signal |-> "none"]
\* st: "off", "loaded" (startProxyServer has read the file), "watching",
\* "polling".  events: change events fs.watch has not delivered yet.  timer:
\* the debounce timer is pending.  writes: the writes of the file begun by
\* other processes.  fileVer counts the states the file went through,
\* cacheVer is the one cachedRoutes was read from.
NoWatch == [st |-> "off", events |-> 0, timer |-> FALSE, writes |-> 0,
            fileVer |-> 0, cacheVer |-> 0]

NoPerm == [exists |-> FALSE, mode |-> {}, owner |-> ""]
NoWrite == [op |-> "none", uid |-> "", sudo |-> "", umask |-> {}, denied |-> FALSE]

\* A certificate: the CA's id is its generation; a leaf's issuer is the id of
\* the CA that signed it; notAfter is a day; sig is the signature's digest.
NoCert == [exists |-> FALSE, id |-> 0, issuer |-> 0, notAfter |-> 0, sig |-> "none"]
NoDisk == [ca |-> NoCert, server |-> NoCert, host |-> NoCert, nextId |-> 1]
NoMem == [running |-> FALSE, default |-> NoCert, cache |-> NoCert, pending |-> FALSE]
NoServed == [by |-> "none", cert |-> NoCert, caId |-> 0, day |-> 0]

NoName == [st |-> "none", hostname |-> <<>>]
NoAcq == [mkdirs |-> 0, sleeps |-> 0, sawStale |-> FALSE, changed |-> FALSE]

InitCertsIdle ==
    /\ certNow = [day |-> 0, ticks |-> 0]
    /\ certDisk = NoDisk
    /\ tlsMem = NoMem
    /\ served = NoServed

InitNamesIdle ==
    /\ nameIn = <<>>
    /\ nameOut = NoName

\* No handshake has arrived, nothing is cached or pending, no certificate of
\* the name is on disk.
NoHandshake == [st |-> "none", gen |-> 0, ctx |-> <<0, 0>>, err |-> FALSE, calls |-> 0, cold |-> FALSE, late |-> FALSE]
NoSniMem == [cache |-> <<0, 0>>, pending |-> 0, made |-> 0]
NoHostDisk == [cert |-> 0, readable |-> TRUE]

InitSniIdle ==
    /\ hs = [h \in 1..MaxHandshakes |-> NoHandshake]
    /\ sniMem = NoSniMem
    /\ gens = [g \in 1..MaxHandshakes |-> "none"]
    /\ hostDisk = NoHostDisk

NoMux == [st |-> "none", buf |-> <<>>, eof |-> FALSE, got |-> <<>>, log |-> <<>>, handed |-> 0]
NoLegs == [kind |-> "none", phase |-> "none", client |-> "none", backend |-> "none", ev |-> {}, cause |-> "none", up |-> 0, down |-> 0]
NoFiles == [pid |-> "absent", port |-> "absent", marker |-> "absent"]
NoShut == [st |-> "none", tls |-> FALSE, bind |-> "ok", watcher |-> "off",
           listener |-> "none", files |-> NoFiles, files0 |-> NoFiles,
           exiting |-> FALSE, timer |-> FALSE, conns |-> 0, sigs |-> <<>>,
           sent |-> 0, handled |-> 0, log |-> <<>>, code |-> 0]

InitMuxIdle == mux = NoMux
InitLegsIdle == legs = NoLegs
InitShutIdle == shut = NoShut

InitEdgeIdle ==
    /\ InitSniIdle
    /\ InitMuxIdle
    /\ InitLegsIdle
    /\ InitShutIdle

InitHoldIdle ==
    /\ lockOwner = 0
    /\ acq = [p \in Pids |-> NoAcq]

InitCliCore ==
    /\ perm = NoPerm
    /\ lastWrite = NoWrite
    /\ runner = NoRunner
    /\ child = NoChild
    /\ watch = NoWatch
    /\ pidFile = NoFile
    /\ portFile = NoFile
    /\ procs = [p \in 1..MaxDaemons |-> NoProc]
    /\ listener = [port \in DaemonPorts |-> 0]
    /\ sigterm = {}
    /\ stop = NoStop

InitCliRest ==
    /\ InitCliCore
    /\ InitEdgeIdle

InitCliIdle ==
    /\ InitCertsIdle
    /\ InitNamesIdle
    /\ InitHoldIdle
    /\ InitCliRest

(***************************************************************************)
(* The proxy's variables while no request is handled.                      *)
(***************************************************************************)
NoHeaders == [k \in {} |-> <<>>]
NoReq == [kind |-> "none", conn |-> "none", headers |-> NoHeaders]
NoProxyReq == [sent |-> FALSE, port |-> 0, headers |-> NoHeaders, error |-> FALSE]
NoUpstream == [status |-> 0, headers |-> NoHeaders, raw |-> <<>>]
\* by: "proxy" (the proxy's own answer), "backend" (relayed), "destroyed"
\* (socket.destroy(), no answer).  headers: the head of an http response;
\* raw: the header lines written to an upgrade socket; upstream: what the
\* backend sent.
NoResp == [by |-> "none", status |-> 0, headers |-> NoHeaders, raw |-> <<>>,
           upstream |-> NoUpstream]

InitProxyIdle ==
    /\ isTls = FALSE
    /\ req = NoReq
    /\ stage = "idle"
    /\ fetched = FALSE
    /\ resSet = NoHeaders
    /\ proxyReq = NoProxyReq
    /\ resp = NoResp
    /\ depth = 0
    /\ heads = 0
    /\ ended = FALSE
    /\ failure = "none"
    /\ toClient = <<>>
    /\ toBackend = <<>>
    /\ clientBuf = <<>>
    /\ backendBuf = <<>>
    /\ sent = [client |-> 0, backend |-> 0]

(***************************************************************************)
(* SpecStore: the store's operations, one call at a time.                  *)
(***************************************************************************)
None == [port |-> 0, pid |-> 0]
NoCall == [op |-> "none", hostname |-> "", port |-> 0, pid |-> 0, force |-> FALSE,
           preEntry |-> None, preLive |-> FALSE, preOwn |-> {}, result |-> "none",
           existingPid |-> 0]
NoOp == [kind |-> "none", hostname |-> "", port |-> 0, force |-> FALSE]
NoRead == [mid |-> FALSE, before |-> <<>>, after |-> <<>>]
NoLoad == [hadDead |-> FALSE, aliveAt |-> {}, persist |-> FALSE, result |-> <<>>]

\* The entry a table holds for hostname h (None: no entry).
EntryOf(routes, h) ==
    IF HasHost(routes, h)
    THEN [port |-> FindHost(routes, h).port, pid |-> FindHost(routes, h).pid]
    ELSE None

\* The entries of a table that carry the pid.
OwnedBy(routes, pid) == {routes[i] : i \in {j \in 1..Len(routes) : routes[j].pid = pid}}

\* Whether the file holds an entry of a process that no longer exists.
HasDead(f, alv) == \E i \in 1..Len(parsedRoutes(f)) : parsedRoutes(f)[i].pid \notin alv

LoadRecord(f, alv, persist) ==
    [hadDead |-> HasDead(f, alv), aliveAt |-> alv, persist |-> persist,
     result |-> loadRoutes(f, alv)]

InitStore ==
    /\ file \in {FileMissing, FileOf(<<>>)}
    /\ alive = Pids
    /\ lastCall = NoCall
    /\ expected = [h \in Hosts |-> None]
    /\ lastLoad = NoLoad
    /\ lock = "absent"
    /\ pc = [p \in Pids |-> "done"]
    /\ op = [p \in Pids |-> NoOp]
    /\ tries = [p \in Pids |-> 0]
    /\ local = [p \in Pids |-> <<>>]
    /\ res = [p \in Pids |-> "none"]
    /\ file0 = FileMissing
    /\ cachedRoutes = <<>>
    /\ writing = NoRead
    /\ lastRead = NoRead
    /\ InitProxyIdle
    /\ InitCliIdle

\* addRoute(hostname, port, pid, force) by the live process pid, with the
\* lock free.  canWrite: whether this process may write routes.json.
StoreAdd(h, port, pid, force, canWrite) ==
    LET routes == loadRoutes(file, alive)
        f1 == loadRoutesFile(file, alive, TRUE, canWrite)
        conflict == addRouteConflict(routes, h, pid, force, alive)
        result == IF conflict THEN "conflict" ELSE IF canWrite THEN "ok" ELSE "ioerror"
    IN  /\ pid \in alive
        /\ file' = IF result = "ok" THEN FileOf(addRouteList(routes, h, port, pid)) ELSE f1
        /\ lastLoad' = LoadRecord(file, alive, TRUE)
        /\ lastCall' = [op |-> "add", hostname |-> h, port |-> port, pid |-> pid,
                        force |-> force, preEntry |-> EntryOf(parsedRoutes(file), h),
                        preLive |-> EntryOf(parsedRoutes(file), h).pid \in alive,
                        preOwn |-> OwnedBy(parsedRoutes(file), pid),
                        result |-> result,
                        existingPid |-> IF conflict THEN FindHost(routes, h).pid ELSE 0]
        /\ expected' = IF result = "ok"
                       THEN [expected EXCEPT ![h] = [port |-> port, pid |-> pid]]
                       ELSE expected
        /\ UNCHANGED <<alive, lockVars, proxyVars, cliVars>>

\* removeRoute(hostname), with the lock free.
StoreRemove(h, canWrite) ==
    LET routes == loadRoutes(file, alive)
        f1 == loadRoutesFile(file, alive, TRUE, canWrite)
        result == IF canWrite THEN "ok" ELSE "ioerror"
    IN  /\ alive # {}
        /\ file' = IF result = "ok" THEN FileOf(removeRouteList(routes, h)) ELSE f1
        /\ lastLoad' = LoadRecord(file, alive, TRUE)
        /\ lastCall' = [op |-> "remove", hostname |-> h, port |-> 0, pid |-> 0,
                        force |-> FALSE, preEntry |-> EntryOf(parsedRoutes(file), h),
                        preLive |-> EntryOf(parsedRoutes(file), h).pid \in alive,
                        preOwn |-> {}, result |-> result, existingPid |-> 0]
        /\ expected' = IF result = "ok" THEN [expected EXCEPT ![h] = None] ELSE expected
        /\ UNCHANGED <<alive, lockVars, proxyVars, cliVars>>

\* loadRoutes() of a reader (list, the daemon): persistCleanup = false.
StoreLoad ==
    /\ lastLoad' = LoadRecord(file, alive, FALSE)
    /\ file' = loadRoutesFile(file, alive, FALSE, TRUE)
    /\ UNCHANGED <<alive, lastCall, expected, lockVars, proxyVars, cliVars>>

\* A process ends (exits or is killed) without deregistering.
ProcessExit(pid) ==
    /\ pid \in alive
    /\ alive' = alive \ {pid}
    /\ UNCHANGED <<file, lastCall, expected, lastLoad, lockVars, proxyVars, cliVars>>

NextStore ==
    \/ \E h \in Hosts, port \in Ports, pid \in Pids, force \in BOOLEAN, w \in BOOLEAN :
           StoreAdd(h, port, pid, force, w)
    \/ \E h \in Hosts, w \in BOOLEAN : StoreRemove(h, w)
    \/ StoreLoad
    \/ \E pid \in Pids : ProcessExit(pid)

SpecStore == InitStore /\ [][NextStore]_vars

(***************************************************************************)
(* SpecLock: addRoute/removeRoute of the processes in Pids on one state    *)
(* directory, one system call per step, and the daemon's reloadRoutes,     *)
(* which reads without the lock.  A lock directory may be there from the   *)
(* start, left by a process that was killed inside its call and older than *)
(* STALE_LOCK_THRESHOLD_MS.  A lock held by a running process does not     *)
(* grow stale here: its read-modify-write takes less than the threshold.   *)
(***************************************************************************)
\* The pid of a process that registered a route and ended without removing it.
GonePid == MaxPid + 1

Ops ==
    [kind : {"add"}, hostname : Hosts, port : Ports, force : BOOLEAN]
        \cup [kind : {"remove"}, hostname : Hosts, port : {0}, force : {FALSE}]

InitLock ==
    /\ alive = Pids
    /\ file \in {FileOf(<<>>), FileOf(<<Route("app.localhost", 4001, GonePid)>>)}
    /\ file0 = file
    /\ lock \in {"absent", "stale"}
    /\ pc = [p \in Pids |-> "idle"]
    /\ op = [p \in Pids |-> NoOp]
    /\ tries = [p \in Pids |-> 0]
    /\ local = [p \in Pids |-> <<>>]
    /\ res = [p \in Pids |-> "none"]
    /\ cachedRoutes = loadRoutes(file, alive)
    /\ writing = NoRead
    /\ lastRead = NoRead
    /\ lastCall = NoCall
    /\ expected = [h \in Hosts |-> None]
    /\ lastLoad = NoLoad
    /\ InitProxyIdle
    /\ InitCliIdle

\* Process p calls addRoute(o.hostname, o.port, p, o.force) or
\* removeRoute(o.hostname): ensureDir, then acquireLock's loop starts.
Begin(p, o) ==
    /\ pc[p] = "idle"
    /\ op' = [op EXCEPT ![p] = o]
    /\ pc' = [pc EXCEPT ![p] = "mkdir"]
    /\ acq' = [acq EXCEPT ![p] = NoAcq]
    /\ UNCHANGED <<storeVars, lock, tries, local, res, file0, cachedRoutes, writing, lastRead, proxyVars,
                   cliVars_NoHold, lockOwner>>

\* withinRetries with one more iteration.
withinRetries_OneMore(i) == i <= MaxRetries

\* isStaleLock when the age of the directory is never looked at.
isStaleLock_Never(l) == FALSE

\* acquireLock's loop test, i < maxRetries with the default maxRetries.
withinRetries(i) == i < MaxRetries

\* acquireLock's test of the directory's age:
\* Date.now() - stat.mtimeMs > STALE_LOCK_THRESHOLD_MS.
isStaleLock(l) == l = "stale"

\* acquireLock: the loop test i < maxRetries fails: return false, and
\* addRoute/removeRoute throw "Failed to acquire route lock".
AcquireTimeout(p) ==
    /\ pc[p] = "mkdir"
    /\ ~withinRetries(tries[p])
    /\ pc' = [pc EXCEPT ![p] = "done"]
    /\ res' = [res EXCEPT ![p] = "lockfail"]
    /\ UNCHANGED <<storeVars, lock, op, tries, local, file0, cachedRoutes, writing, lastRead, proxyVars, cliVars>>

\* acquireLock: fs.mkdirSync(lockPath) creates the directory (return true) or
\* throws EEXIST.
AcquireMkdir(p) ==
    /\ pc[p] = "mkdir"
    /\ withinRetries(tries[p])
    /\ IF lock = "absent"
       THEN /\ lock' = "fresh"
            /\ lockOwner' = p
            /\ pc' = [pc EXCEPT ![p] = "load"]
            /\ acq' = [acq EXCEPT ![p].mkdirs = @ + 1, ![p].changed = TRUE]
       ELSE /\ pc' = [pc EXCEPT ![p] = "stat"]
            /\ acq' = [acq EXCEPT ![p].mkdirs = @ + 1]
            /\ UNCHANGED <<lock, lockOwner>>
    /\ UNCHANGED <<storeVars, op, tries, local, res, file0, cachedRoutes, writing, lastRead, proxyVars,
                   cliVars_NoHold>>

\* acquireLock after EEXIST: fs.statSync(lockPath).  Gone already: continue;
\* stale: go on to rmSync; otherwise syncSleep and the next iteration.
AcquireStat(p) ==
    /\ pc[p] = "stat"
    /\ IF isStaleLock(lock)
       THEN /\ pc' = [pc EXCEPT ![p] = "rm"]
            /\ acq' = [acq EXCEPT ![p].sawStale = TRUE]
            /\ UNCHANGED tries
       ELSE /\ pc' = [pc EXCEPT ![p] = "mkdir"]
            /\ tries' = [tries EXCEPT ![p] = @ + 1]
            /\ acq' = IF lock = "absent"
                      THEN [acq EXCEPT ![p].sawStale = TRUE]
                      ELSE [acq EXCEPT ![p].sleeps = @ + 1]
    /\ UNCHANGED <<storeVars, lock, op, local, res, file0, cachedRoutes, writing, lastRead, proxyVars,
                   cliVars_NoHold, lockOwner>>

\* acquireLock: fs.rmSync(lockPath, {recursive: true}) of the lock found
\* stale, then continue.  It removes whatever directory is at the path now (and
\* throws, which is caught, when none is).
AcquireRm(p) ==
    /\ pc[p] = "rm"
    /\ lock' = "absent"
    /\ lockOwner' = 0
    /\ acq' = [acq EXCEPT ![p].changed = @ \/ lock # "absent"]
    /\ pc' = [pc EXCEPT ![p] = "mkdir"]
    /\ tries' = [tries EXCEPT ![p] = @ + 1]
    /\ UNCHANGED <<storeVars, op, local, res, file0, cachedRoutes, writing, lastRead, proxyVars,
                   cliVars_NoHold>>

\* AfterLoad with RouteConflictError thrown past releaseLock: the call ends
\* with the lock directory in place.
AfterLoad_NoFinally(p, routes) ==
    IF op[p].kind = "add"
    THEN IF addRouteConflict(routes, op[p].hostname, p, op[p].force, alive)
         THEN <<"done", routes, "conflict">>
         ELSE <<"saveOpen", addRouteList(routes, op[p].hostname, op[p].port, p), "none">>
    ELSE <<"saveOpen", removeRouteList(routes, op[p].hostname), "none">>

\* After loadRoutes(true) has returned routes: addRoute's conflict test and
\* list, or removeRoute's list.  <<pc, local, res>> of the process.
AfterLoad(p, routes) ==
    IF op[p].kind = "add"
    THEN IF addRouteConflict(routes, op[p].hostname, p, op[p].force, alive)
         THEN <<"release", routes, "conflict">>
         ELSE <<"saveOpen", addRouteList(routes, op[p].hostname, op[p].port, p), "none">>
    ELSE <<"saveOpen", removeRouteList(routes, op[p].hostname), "none">>

\* loadRoutes(true) inside the lock: readFileSync, parse, filter.  When an
\* entry was dropped the cleaned list is written next.
LockedLoad(p) ==
    /\ pc[p] = "load"
    /\ LET routes == loadRoutes(file, alive)
           next == AfterLoad(p, routes)
       IN  IF file.st = "ok" /\ Len(routes) # Len(parsedRoutes(file))
           THEN /\ pc' = [pc EXCEPT ![p] = "gcOpen"]
                /\ local' = [local EXCEPT ![p] = routes]
                /\ UNCHANGED res
           ELSE /\ pc' = [pc EXCEPT ![p] = next[1]]
                /\ local' = [local EXCEPT ![p] = next[2]]
                /\ res' = [res EXCEPT ![p] = next[3]]
    /\ lastLoad' = LoadRecord(file, alive, TRUE)
    /\ UNCHANGED <<file, alive, lastCall, expected, lock, op, tries, file0,
                   cachedRoutes, writing, lastRead, proxyVars, cliVars>>

\* loadRoutes(true): fs.writeFileSync of the cleaned list opens the file with
\* O_TRUNC ...
CleanupOpen(p) ==
    /\ pc[p] = "gcOpen"
    /\ file' = FileTrunc
    /\ writing' = [mid |-> TRUE, before |-> loadRoutes(file, alive), after |-> local[p]]
    /\ pc' = [pc EXCEPT ![p] = "gcWrite"]
    /\ UNCHANGED <<alive, lastCall, expected, lastLoad, lock, op, tries, local, res,
                   file0, cachedRoutes, lastRead, proxyVars, cliVars>>

\* ... and writes it; loadRoutes returns and the caller goes on.
CleanupWrite(p) ==
    /\ pc[p] = "gcWrite"
    /\ file' = FileOf(local[p])
    /\ LET next == AfterLoad(p, local[p])
       IN  /\ pc' = [pc EXCEPT ![p] = next[1]]
           /\ local' = [local EXCEPT ![p] = next[2]]
           /\ res' = [res EXCEPT ![p] = next[3]]
    /\ writing' = NoRead
    /\ UNCHANGED <<alive, lastCall, expected, lastLoad, lock, op, tries, file0,
                   cachedRoutes, lastRead, proxyVars, cliVars>>

\* saveRoutes: fs.writeFileSync opens routes.json with O_TRUNC ...
SaveOpen(p) ==
    /\ pc[p] = "saveOpen"
    /\ file' = FileTrunc
    /\ writing' = [mid |-> TRUE, before |-> loadRoutes(file, alive), after |-> local[p]]
    /\ pc' = [pc EXCEPT ![p] = "saveWrite"]
    /\ UNCHANGED <<alive, lastCall, expected, lastLoad, lock, op, tries, local, res,
                   file0, cachedRoutes, lastRead, proxyVars, cliVars>>

\* ... and writes the JSON of the list.
SaveWrite(p) ==
    /\ pc[p] = "saveWrite"
    /\ file' = FileOf(local[p])
    /\ pc' = [pc EXCEPT ![p] = "release"]
    /\ res' = [res EXCEPT ![p] = "ok"]
    /\ writing' = NoRead
    /\ UNCHANGED <<alive, lastCall, expected, lastLoad, lock, op, tries, local, file0,
                   cachedRoutes, lastRead, proxyVars, cliVars>>

\* saveRoutes: fs.writeFileSync cannot open routes.json for writing (EACCES
\* on a file of another user): it throws, the file is as it was, and the
\* exception leaves addRoute/removeRoute through finally.
SaveFails(p) ==
    /\ pc[p] = "saveOpen"
    /\ pc' = [pc EXCEPT ![p] = "release"]
    /\ res' = [res EXCEPT ![p] = "ioerror"]
    /\ UNCHANGED <<storeVars, lock, op, tries, local, file0, cachedRoutes, writing, lastRead,
                   proxyVars, cliVars>>

\* finally: releaseLock: fs.rmSync(lockPath, {recursive: true}), errors
\* ignored.
ReleaseLock(p) ==
    /\ pc[p] = "release"
    /\ lock' = "absent"
    /\ lockOwner' = 0
    /\ pc' = [pc EXCEPT ![p] = "done"]
    /\ UNCHANGED <<storeVars, op, tries, local, res, file0, cachedRoutes, writing, lastRead, proxyVars,
                   cliVars_NoHold, acq>>

\* The daemon's reloadRoutes (fs.watch's debounced callback or the polling
\* timer): cachedRoutes = store.loadRoutes(), without the lock.  loadRoutes
\* does not throw on a file it cannot parse: it returns [].
reloadRoutes ==
    /\ cachedRoutes' = loadRoutes(file, alive)
    /\ lastRead' = writing
    /\ lastLoad' = LoadRecord(file, alive, FALSE)
    /\ UNCHANGED <<file, alive, lastCall, expected, lock, pc, op, tries, local, res,
                   file0, writing, proxyVars, cliVars>>

NextLock ==
    \/ reloadRoutes
    \/ \E p \in Pids, o \in Ops : Begin(p, o)
    \/ \E p \in Pids : AcquireTimeout(p)
    \/ \E p \in Pids : AcquireMkdir(p)
    \/ \E p \in Pids : AcquireStat(p)
    \/ \E p \in Pids : AcquireRm(p)
    \/ \E p \in Pids : LockedLoad(p)
    \/ \E p \in Pids : CleanupOpen(p)
    \/ \E p \in Pids : CleanupWrite(p)
    \/ \E p \in Pids : SaveOpen(p)
    \/ \E p \in Pids : SaveWrite(p)
    \/ \E p \in Pids : SaveFails(p)
    \/ \E p \in Pids : ReleaseLock(p)

SpecLock == InitLock /\ [][NextLock]_vars

(***************************************************************************)
(* Claims about the store, under SpecStore.                                *)
(***************************************************************************)
\* The last call was add(h, p2, pid2, force = false) on a table holding
\* (h, p1, pid1) with pid1 # pid2 and pid1 alive.
C2_Case ==
    /\ lastCall.op = "add"
    /\ ~lastCall.force
    /\ lastCall.preEntry # None
    /\ lastCall.preEntry.pid # lastCall.pid
    /\ lastCall.preLive

\* C2: add(h, p2, pid2, force=false) on a table holding (h, p1, pid1), pid1
\* another live process, throws the conflict error naming pid1; afterwards h
\* still maps to (p1, pid1), and the call gave pid2 no entry: none for h, and
\* its entries are the ones it had before.
C2_ConflictKeepsIncumbent ==
    C2_Case =>
        /\ lastCall.result = "conflict"
        /\ lastCall.existingPid = lastCall.preEntry.pid
        /\ EntryOf(parsedRoutes(file), lastCall.hostname) = lastCall.preEntry
        /\ \A i \in 1..Len(parsedRoutes(file)) :
               parsedRoutes(file)[i].hostname = lastCall.hostname
                   => parsedRoutes(file)[i].pid # lastCall.pid
        /\ OwnedBy(parsedRoutes(file), lastCall.pid) = lastCall.preOwn

C2_Witness == C2_Case /\ lastCall.result = "conflict" /\ lastCall.port # lastCall.preEntry.port

\* The number of entries a table holds for hostname h.
CountHost(routes, h) == Cardinality({i \in 1..Len(routes) : routes[i].hostname = h})

\* C3: while every pid is alive, load() returns exactly the table obtained by
\* applying the successful add/remove calls in order: for each hostname one
\* entry with the port and pid of its latest add, and none after its remove.
C3_LoadEqualsAppliedCalls ==
    alive = Pids =>
        \A h \in Hosts :
            /\ EntryOf(loadRoutes(file, alive), h) = expected[h]
            /\ CountHost(loadRoutes(file, alive), h) = (IF expected[h] = None THEN 0 ELSE 1)

\* An add that replaced the entry of its hostname by another port, with the
\* other hostname registered too.
C3_Witness ==
    /\ alive = Pids
    /\ lastCall.op = "add"
    /\ lastCall.result = "ok"
    /\ lastCall.preEntry # None
    /\ lastCall.preEntry.port # lastCall.port
    /\ \A h \in Hosts : expected[h] # None

\* C4: no entry that loadRoutes returns carries a pid that was not alive when
\* it loaded, with persistCleanup and without, the cleanup written or not.
C4_LoadReturnsOnlyLive ==
    \A i \in 1..Len(lastLoad.result) : lastLoad.result[i].pid \in lastLoad.aliveAt

\* A load without persistCleanup of a file that held a dead process's entry
\* beside a live one.
C4_Witness ==
    /\ lastLoad.hadDead
    /\ ~lastLoad.persist
    /\ Len(lastLoad.result) > 0

(***************************************************************************)
(* Claims about concurrent calls, under SpecLock.                          *)
(***************************************************************************)
\* The file after process p's call, run alone on file f.
ApplyOp(f, p) ==
    LET routes == loadRoutes(f, alive)
    IN  IF op[p].kind = "add"
        THEN IF addRouteConflict(routes, op[p].hostname, p, op[p].force, alive)
             THEN loadRoutesFile(f, alive, TRUE, TRUE)
             ELSE FileOf(addRouteList(routes, op[p].hostname, op[p].port, p))
        ELSE FileOf(removeRouteList(routes, op[p].hostname))

\* The files that running the calls of the processes in S one at a time, in
\* some order, can leave, from file f.
RECURSIVE SerialFiles(_, _)
SerialFiles(S, f) ==
    IF S = {} THEN {f}
    ELSE UNION {SerialFiles(S \ {p}, ApplyOp(f, p)) : p \in S}

\* A file's table: the set of its entries.
TableOf(f) == {parsedRoutes(f)[i] : i \in 1..Len(parsedRoutes(f))}

\* The processes whose call ran to its end inside the lock.
Executed == {p \in Pids : res[p] \in {"ok", "conflict"}}

\* C1: when the concurrent calls have all ended, the route file holds what
\* running the same calls one at a time in some order leaves.
C1_Linearizable ==
    (\A p \in Pids : pc[p] \in {"idle", "done"})
        => TableOf(file) \in {TableOf(g) : g \in SerialFiles(Executed, file0)}

\* C5: a reload that reads routes.json while a write of it is in progress
\* gets the table as it was before the write or as it is after it.
C5_ReadBeforeOrAfter ==
    lastRead.mid => cachedRoutes \in {lastRead.before, lastRead.after}

(***************************************************************************)
(* Text.  A header value the proxy parses is a sequence of characters, so  *)
(* that split(":") and parseInt are computed on what the client sent.      *)
(***************************************************************************)
DigitChars == <<"0", "1", "2", "3", "4", "5", "6", "7", "8", "9">>
DigitSet == {DigitChars[i] : i \in 1..Len(DigitChars)}
DigitVal(c) == (CHOOSE i \in 1..Len(DigitChars) : DigitChars[i] = c) - 1

T_http == <<"h", "t", "t", "p">>
T_https == <<"h", "t", "t", "p", "s">>
T_80 == <<"8", "0">>
T_443 == <<"4", "4", "3">>
T_remoteAddress == <<"1", "2", "7", ".", "0", ".", "0", ".", "1">>

\* The index of the first ":" of t, 0 when there is none.
ColonAt(t) ==
    IF \E i \in 1..Len(t) : t[i] = ":"
    THEN CHOOSE i \in 1..Len(t) : t[i] = ":" /\ \A j \in 1..(i - 1) : t[j] # ":"
    ELSE 0

\* t.split(":")[0]
split0(t) == IF ColonAt(t) = 0 THEN t ELSE SubSeq(t, 1, ColonAt(t) - 1)

\* t.split(":")[1] || "": what follows the first ":" up to the next one.
split1(t) ==
    IF ColonAt(t) = 0 THEN <<>> ELSE split0(SubSeq(t, ColonAt(t) + 1, Len(t)))

(***************************************************************************)
(* Numbers.  parseInt's result is a double: NaN, an integer held exactly   *)
(* ("int"), or an integer of magnitude 2^54 or more ("big"), where the     *)
(* doubles are 4 or more apart and x + 1 rounds back to x.  The long digit *)
(* strings among the inputs are powers of ten up to 10^20, which are       *)
(* doubles exactly and which String() prints in plain decimal.             *)
(***************************************************************************)
NaN == [k |-> "nan", neg |-> FALSE, v |-> 0, digits |-> <<>>]
Exact(n) == [k |-> "int", neg |-> n < 0, v |-> n, digits |-> <<>>]
Big(neg, digits) == [k |-> "big", neg |-> neg, v |-> 0, digits |-> digits]

RECURSIVE TrimLeft(_)
TrimLeft(t) == IF t # <<>> /\ Head(t) = " " THEN TrimLeft(Tail(t)) ELSE t

RECURSIVE DigitPrefix(_)
DigitPrefix(t) ==
    IF t # <<>> /\ Head(t) \in DigitSet
    THEN <<Head(t)>> \o DigitPrefix(Tail(t))
    ELSE <<>>

RECURSIVE DigitsValue(_)
DigitsValue(d) ==
    IF d = <<>> THEN 0
    ELSE DigitsValue(SubSeq(d, 1, Len(d) - 1)) * 10 + DigitVal(d[Len(d)])

\* parseInt(t, 10): leading white space, an optional sign, then the longest
\* run of decimal digits; NaN when there is no digit.
parseInt(t) ==
    LET s == TrimLeft(t)
        neg == s # <<>> /\ Head(s) = "-"
        body == IF s # <<>> /\ Head(s) \in {"-", "+"} THEN Tail(s) ELSE s
        digits == DigitPrefix(body)
    IN  IF digits = <<>> THEN NaN
        ELSE IF Len(digits) <= 9
             THEN Exact(IF neg THEN 0 - DigitsValue(digits) ELSE DigitsValue(digits))
             ELSE Big(neg, digits)

\* n || 0: NaN and 0 are falsy.
orZero(n) == IF n.k = "nan" \/ (n.k = "int" /\ n.v = 0) THEN Exact(0) ELSE n

\* a < b on doubles that are not NaN.
NumLess(a, b) ==
    CASE a.k = "int" /\ b.k = "int" -> a.v < b.v
      [] a.k = "int" /\ b.k = "big" -> ~b.neg
      [] a.k = "big" /\ b.k = "int" -> a.neg
      [] OTHER -> \/ a.neg /\ ~b.neg
                  \/ /\ a.neg = b.neg
                     /\ Len(a.digits) # Len(b.digits)
                     /\ (Len(a.digits) < Len(b.digits)) = ~a.neg

\* n + 1 in double arithmetic.
plus1(n) == IF n.k = "int" THEN Exact(n.v + 1) ELSE n

RECURSIVE NatText(_)
NatText(n) ==
    IF n < 10 THEN <<DigitChars[n + 1]>>
    ELSE NatText(n \div 10) \o <<DigitChars[(n % 10) + 1]>>

\* String(n) of an integer below 10^21: its decimal digits.
String(n) ==
    IF n.k = "int"
    THEN IF n.v < 0 THEN <<"-">> \o NatText(0 - n.v) ELSE NatText(n.v)
    ELSE (IF n.neg THEN <<"-">> ELSE <<>>) \o n.digits

(***************************************************************************)
(* The proxy (createProxyServer).  Header names are lower-cased, as Node   *)
(* delivers them in req.headers and proxyRes.headers and keys them in      *)
(* setHeader/writeHead.  Request header values are texts; response header  *)
(* values are not parsed and are strings.                                  *)
(***************************************************************************)
PORTLESS_HEADER == "x-portless"
PORTLESS_HOPS_HEADER == "x-portless-hops"
MAX_PROXY_HOPS == 5
HOP_BY_HOP_HEADERS ==
    {"connection", "keep-alive", "proxy-connection", "transfer-encoding", "upgrade"}
\* The HTTP/2 pseudo-headers: the keys that start with ":".
PseudoHeaders == {":authority", ":method", ":path", ":scheme"}

\* headers[name] || "": undefined and "" are both falsy.
headerOr(headers, name) == IF name \in DOMAIN headers THEN headers[name] ELSE <<>>

getRequestHost(headers) ==
    IF headerOr(headers, ":authority") # <<>>
    THEN headers[":authority"]
    ELSE headerOr(headers, "host")

\* req.socket.remoteAddress is the loopback address: the clients are local.
buildForwardedHeaders(headers, tls) ==
    LET proto == IF tls THEN T_https ELSE T_http
        defaultPort == IF tls THEN T_443 ELSE T_80
        hostHeader == getRequestHost(headers)
        or(a, b) == IF a # <<>> THEN a ELSE b
    IN  ("x-forwarded-for" :>
            (IF headerOr(headers, "x-forwarded-for") # <<>>
             THEN headers["x-forwarded-for"] \o <<",", " ">> \o T_remoteAddress
             ELSE T_remoteAddress))
        @@ ("x-forwarded-proto" :> or(headerOr(headers, "x-forwarded-proto"), proto))
        @@ ("x-forwarded-host" :> or(headerOr(headers, "x-forwarded-host"), hostHeader))
        @@ ("x-forwarded-port" :>
            or(headerOr(headers, "x-forwarded-port"), or(split1(hostHeader), defaultPort)))

\* parseInt(req.headers[PORTLESS_HOPS_HEADER], 10) || 0; an absent header is
\* undefined, which parseInt reads as the text "undefined": NaN.
hopsOf(headers) ==
    orZero(IF PORTLESS_HOPS_HEADER \in DOMAIN headers
           THEN parseInt(headers[PORTLESS_HOPS_HEADER])
           ELSE NaN)

overLimit(hops) == ~NumLess(hops, Exact(MAX_PROXY_HOPS))

NoRoute == [hostname |-> <<>>, port |-> 0, pid |-> 0]

\* A mutant of findRoute: the first route, whatever its hostname.
findRoute_First(routes, host) == IF routes = <<>> THEN NoRoute ELSE routes[1]

\* routes.find((r) => r.hostname === host), NoRoute for undefined.
findRoute(routes, host) ==
    IF \E i \in 1..Len(routes) : routes[i].hostname = host
    THEN routes[CHOOSE i \in 1..Len(routes) :
                    /\ routes[i].hostname = host
                    /\ \A j \in 1..(i - 1) : routes[j].hostname # host]
    ELSE NoRoute

\* The headers of the request sent to the backend: the client's, then the
\* forwarded ones, then the hop count, without the pseudo-headers.
proxyReqHeaders(headers, tls, hops) ==
    LET all == (PORTLESS_HOPS_HEADER :> String(plus1(hops)))
                   @@ buildForwardedHeaders(headers, tls) @@ headers
    IN  [k \in DOMAIN all \ PseudoHeaders |-> all[k]]

\* A mutant of writeHead: the headers set with setHeader are dropped.
writeHead_NoMerge(obj, set) == obj

\* res.writeHead(status, obj) after res.setHeader: the head carries the
\* headers set before, with those of obj taking precedence.
writeHead(obj, set) == obj @@ set

(***************************************************************************)
(* SpecProxy: the proxy handles one request or one upgrade, and the        *)
(* backend answers.                                                        *)
(***************************************************************************)
HostTexts ==
    {<<>>, <<"a">>, <<"A">>, <<"a", "a">>, <<"a", ":", "8">>, <<":", "8">>}
BigHops == <<"1">> \o [i \in 1..17 |-> "0"]
HopsTexts ==
    {<<>>, <<"x">>, <<"0">>, <<"3">>, <<"4">>, <<"5">>, <<"6">>, <<"-", "2">>,
     <<" ", "4">>, <<"4", "x">>, BigHops, <<"-">> \o BigHops}
RouteTables ==
    {<<>>,
     <<Route(<<"a">>, 4001, 1)>>,
     <<Route(<<"a">>, 4001, 1), Route(<<"a", "a">>, 4002, 2)>>}

\* The header named name with a value of vals, or no such header.
Optional(name, vals) == {NoHeaders} \cup {name :> v : v \in vals}

\* What a client can send on a connection: "plain" and "tls-h1" are
\* HTTP/1.1, which has no pseudo-headers; upgrades arrive over HTTP/1.1.
Requests(tls) ==
    LET h1 == {H @@ P @@ F : H \in Optional("host", HostTexts),
                             P \in Optional(PORTLESS_HOPS_HEADER, HopsTexts),
                             F \in Optional("x-forwarded-proto", {T_https})}
        h2 == {A @@ h : A \in Optional(":authority", HostTexts), h \in h1}
        conns == IF tls THEN {"plain", "tls-h1"} ELSE {"plain"}
    IN  [kind : {"request", "upgrade"}, conn : conns, headers : h1]
            \cup (IF tls THEN [kind : {"request"}, conn : {"tls-h2"}, headers : h2]
                  ELSE {})

BackendStatuses == {200, 500}
BackendHeaders ==
    {A @@ B @@ C : A \in Optional("content-type", {"text/html"}),
                   B \in Optional("connection", {"keep-alive"}),
                   C \in Optional(PORTLESS_HEADER, {"0"})}
BackendRaws ==
    {<<>>,
     <<<<"Upgrade", "websocket">>, <<"Connection", "Upgrade">>>>,
     <<<<"Connection", "Upgrade">>, <<"Upgrade", "websocket">>>>}

InitProxy ==
    /\ isTls \in BOOLEAN
    /\ cachedRoutes \in RouteTables
    /\ req = NoReq
    /\ stage = "idle"
    /\ fetched = FALSE
    /\ resSet = NoHeaders
    /\ proxyReq = NoProxyReq
    /\ resp = NoResp
    /\ depth = 0
    /\ heads = 0
    /\ ended = FALSE
    /\ failure = "none"
    /\ toClient = <<>>
    /\ toBackend = <<>>
    /\ clientBuf = <<>>
    /\ backendBuf = <<>>
    /\ sent = [client |-> 0, backend |-> 0]
    /\ InitCliIdle
    /\ file = FileMissing
    /\ alive = Pids
    /\ lastCall = NoCall
    /\ expected = [h \in Hosts |-> None]
    /\ lastLoad = NoLoad
    /\ lock = "absent"
    /\ pc = [p \in Pids |-> "done"]
    /\ op = [p \in Pids |-> NoOp]
    /\ tries = [p \in Pids |-> 0]
    /\ local = [p \in Pids |-> <<>>]
    /\ res = [p \in Pids |-> "none"]
    /\ file0 = FileMissing
    /\ writing = NoRead
    /\ lastRead = NoRead

\* The proxy's own answer on the http path: res.writeHead(status, obj).
Answer(status, obj, set) ==
    [by |-> "proxy", status |-> status, headers |-> writeHead(obj, set),
     raw |-> <<>>, upstream |-> NoUpstream]

\* handleRequest(req, res) for the request r.
handleRequest(r) ==
    /\ stage = "idle"
    /\ r.kind = "request"
    /\ req' = r
    /\ resSet' = (PORTLESS_HEADER :> "1")
    /\ fetched' = TRUE
    /\ LET routes == cachedRoutes
           host == split0(getRequestHost(r.headers))
           hops == hopsOf(r.headers)
           route == findRoute(routes, host)
       IN  IF host = <<>>
           THEN /\ resp' = Answer(400, "content-type" :> "text/plain", resSet')
                /\ stage' = "done"
                /\ heads' = heads + 1
                /\ ended' = TRUE
                /\ UNCHANGED proxyReq
           ELSE IF overLimit(hops)
           THEN /\ resp' = Answer(508, "content-type" :> "text/plain", resSet')
                /\ stage' = "done"
                /\ heads' = heads + 1
                /\ ended' = TRUE
                /\ UNCHANGED proxyReq
           ELSE IF route = NoRoute
           THEN /\ resp' = Answer(404, "content-type" :> "text/html", resSet')
                /\ stage' = "done"
                /\ heads' = heads + 1
                /\ ended' = TRUE
                /\ UNCHANGED proxyReq
           ELSE /\ proxyReq' = [sent |-> TRUE, port |-> route.port,
                                headers |-> proxyReqHeaders(r.headers, isTls, hops),
                                error |-> FALSE]
                /\ stage' = "forwarded"
                /\ UNCHANGED <<resp, heads, ended>>
    /\ UNCHANGED <<isTls, depth, failure, pipeVars, storeVars, lockVars, cliVars>>

\* What the callback of http.request writes to the client for the backend's
\* response head: the hop-by-hop headers are deleted when the proxy has TLS.
relayed(status, headers, tls, set) ==
    LET responseHeaders ==
            IF tls
            THEN [k \in DOMAIN headers \ HOP_BY_HOP_HEADERS |-> headers[k]]
            ELSE headers
    IN  [by |-> "backend",
         status |-> IF status = 0 THEN 502 ELSE status,
         headers |-> writeHead(responseHeaders, set),
         raw |-> <<>>,
         upstream |-> [status |-> status, headers |-> headers, raw |-> <<>>]]

\* The callback of http.request: the backend's response head arrived; the
\* head is written to the client and the body is piped.
onProxyRes(status, headers) ==
    /\ stage = "forwarded"
    /\ req.kind = "request"
    /\ resp' = relayed(status, headers, isTls, resSet)
    /\ heads' = heads + 1
    /\ stage' = "piping"
    /\ UNCHANGED <<isTls, req, fetched, resSet, proxyReq, depth, ended, failure,
                   pipeVars, storeVars, lockVars, cliVars>>

\* proxyRes.pipe(res): the backend's body came to its end, which ends res.
onProxyResEnd ==
    /\ stage = "piping"
    /\ req.kind = "request"
    /\ ended' = TRUE
    /\ stage' = "done"
    /\ UNCHANGED <<isTls, req, fetched, resSet, proxyReq, resp, depth, heads, failure,
                   pipeVars, storeVars, lockVars, cliVars>>

\* A mutant of writes502: the error handlers write a head whenever they run.
writes502_Always(headersSent) == TRUE

\* if (!res.headersSent) res.writeHead(502, ...)
writes502(headersSent) == ~headersSent

\* proxyRes.on("error"): the backend's response broke off after its head.
onProxyResError ==
    /\ stage = "piping"
    /\ req.kind = "request"
    /\ IF writes502(heads > 0)
       THEN /\ resp' = Answer(502, "content-type" :> "text/plain", resSet)
            /\ heads' = heads + 1
       ELSE UNCHANGED <<resp, heads>>
    /\ ended' = TRUE
    /\ failure' = "after"
    /\ stage' = "done"
    /\ UNCHANGED <<isTls, req, fetched, resSet, proxyReq, depth, pipeVars, storeVars, lockVars, cliVars>>

\* proxyReq.on("error") on the http path.  Before the head it answers 502;
\* after the head it writes nothing, and the response, which Node destroys
\* unless it was complete, ends through onProxyResError or onProxyResEnd.
onProxyReqError ==
    /\ stage \in {"forwarded", "piping"}
    /\ req.kind = "request"
    /\ ~proxyReq.error
    /\ proxyReq' = [proxyReq EXCEPT !.error = TRUE]
    /\ IF writes502(heads > 0)
       THEN /\ resp' = Answer(502, "content-type" :> "text/plain", resSet)
            /\ heads' = heads + 1
            /\ ended' = TRUE
            /\ stage' = "done"
       ELSE UNCHANGED <<resp, heads, ended, stage>>
    /\ failure' = IF heads > 0 THEN "after" ELSE "before"
    /\ UNCHANGED <<isTls, req, fetched, resSet, depth, pipeVars, storeVars, lockVars, cliVars>>

\* What is written to a socket: a status line, a header line or a byte of
\* the upgraded stream; the n-th byte a side sends is numbered n.
StatusLine(status) == [k |-> "status", name |-> "", value |-> "", n |-> status]
HeaderLine(pair) == [k |-> "header", name |-> pair[1], value |-> pair[2], n |-> 0]
Byte(n) == [k |-> "byte", name |-> "", value |-> "", n |-> n]
Lines(raw) == [i \in 1..Len(raw) |-> HeaderLine(raw[i])]
Bytes(from, to) == [i \in 1..(to - from + 1) |-> Byte(from + i - 1)]

\* handleUpgrade(req, socket, head) for the upgrade request r; head holds the
\* bytes the client sent right behind the request.
handleUpgrade(r, head) ==
    /\ stage = "idle"
    /\ r.kind = "upgrade"
    /\ req' = r
    /\ sent' = [sent EXCEPT !.client = Len(head)]
    /\ LET hops == hopsOf(r.headers)
           routes == cachedRoutes
           host == split0(getRequestHost(r.headers))
           route == findRoute(routes, host)
       IN  IF overLimit(hops)
           THEN /\ resp' = [by |-> "proxy", status |-> 508, headers |-> NoHeaders,
                            raw |-> <<<<"Content-Type", "text/plain">>>>,
                            upstream |-> NoUpstream]
                /\ toClient' = <<StatusLine(508), HeaderLine(<<"Content-Type", "text/plain">>)>>
                /\ stage' = "done"
                /\ heads' = heads + 1
                /\ ended' = TRUE
                /\ UNCHANGED <<fetched, proxyReq, toBackend>>
           ELSE IF route = NoRoute
           THEN /\ resp' = [NoResp EXCEPT !.by = "destroyed"]
                /\ stage' = "done"
                /\ fetched' = TRUE
                /\ ended' = TRUE
                /\ UNCHANGED <<proxyReq, heads, toClient, toBackend>>
           ELSE /\ proxyReq' = [sent |-> TRUE, port |-> route.port,
                                headers |-> proxyReqHeaders(r.headers, isTls, hops),
                                error |-> FALSE]
                /\ toBackend' = head
                /\ stage' = "forwarded"
                /\ fetched' = TRUE
                /\ UNCHANGED <<resp, heads, ended, toClient>>
    /\ UNCHANGED <<isTls, resSet, depth, failure, clientBuf, backendBuf,
                   storeVars, lockVars, cliVars>>

\* A mutant of upgradeResponse: the backend's first bytes go out before the
\* response head.
upgradeResponse_HeadFirst(raw, proxyHead) ==
    proxyHead \o <<StatusLine(101)>> \o Lines(raw)

\* The 101 written to the client socket: the status line, the backend's
\* rawHeaders in their order, an empty line, and then proxyHead, the bytes
\* the backend sent right behind its 101.
upgradeResponse(raw, proxyHead) ==
    <<StatusLine(101)>> \o Lines(raw) \o proxyHead

\* proxyReq.on("upgrade"): the backend's 101 is written to the client socket
\* and the two sockets are piped into each other.
onUpgrade(raw, proxyHead) ==
    /\ stage = "forwarded"
    /\ req.kind = "upgrade"
    /\ resp' = [by |-> "backend", status |-> 101, headers |-> NoHeaders, raw |-> raw,
                upstream |-> [status |-> 101, headers |-> NoHeaders, raw |-> raw]]
    /\ toClient' = upgradeResponse(raw, proxyHead)
    /\ sent' = [sent EXCEPT !.backend = Len(proxyHead)]
    /\ stage' = "piped"
    /\ heads' = heads + 1
    /\ UNCHANGED <<isTls, req, fetched, resSet, proxyReq, depth, ended, failure,
                   toBackend, clientBuf, backendBuf, storeVars, lockVars, cliVars>>

\* The client sends the next byte of its stream; until the sockets are piped
\* it waits in the client socket, which nothing reads.
ClientSend ==
    /\ req.kind = "upgrade"
    /\ stage \in {"forwarded", "piped"}
    /\ sent.client < MaxBytes
    /\ sent' = [sent EXCEPT !.client = @ + 1]
    /\ clientBuf' = Append(clientBuf, Byte(sent.client + 1))
    /\ UNCHANGED <<isTls, req, stage, fetched, resSet, proxyReq, resp, depth, outVars,
                   toClient, toBackend, backendBuf, storeVars, lockVars, cliVars>>

\* The backend sends the next byte of its stream on the upgraded socket.
BackendSend ==
    /\ stage = "piped"
    /\ sent.backend < MaxBytes
    /\ sent' = [sent EXCEPT !.backend = @ + 1]
    /\ backendBuf' = Append(backendBuf, Byte(sent.backend + 1))
    /\ UNCHANGED <<isTls, req, stage, fetched, resSet, proxyReq, resp, depth, outVars,
                   toClient, toBackend, clientBuf, storeVars, lockVars, cliVars>>

\* socket.pipe(proxySocket)
pipeToBackend ==
    /\ stage = "piped"
    /\ clientBuf # <<>>
    /\ toBackend' = Append(toBackend, Head(clientBuf))
    /\ clientBuf' = Tail(clientBuf)
    /\ UNCHANGED <<isTls, req, stage, fetched, resSet, proxyReq, resp, depth, outVars,
                   toClient, backendBuf, sent, storeVars, lockVars, cliVars>>

\* proxySocket.pipe(socket)
pipeToClient ==
    /\ stage = "piped"
    /\ backendBuf # <<>>
    /\ toClient' = Append(toClient, Head(backendBuf))
    /\ backendBuf' = Tail(backendBuf)
    /\ UNCHANGED <<isTls, req, stage, fetched, resSet, proxyReq, resp, depth, outVars,
                   toBackend, clientBuf, sent, storeVars, lockVars, cliVars>>

\* proxyReq.on("response") on the upgrade path: the backend answered with an
\* ordinary response, which is written to the client socket.
onResponse(status, raw) ==
    /\ stage = "forwarded"
    /\ req.kind = "upgrade"
    /\ resp' = [by |-> "backend", status |-> status, headers |-> NoHeaders, raw |-> raw,
                upstream |-> [status |-> status, headers |-> NoHeaders, raw |-> raw]]
    /\ toClient' = <<StatusLine(status)>> \o Lines(raw)
    /\ stage' = "done"
    /\ heads' = heads + 1
    /\ UNCHANGED <<isTls, req, fetched, resSet, proxyReq, depth, ended, failure,
                   toBackend, clientBuf, backendBuf, sent, storeVars, lockVars, cliVars>>

\* proxyReq.on("error") on the upgrade path: socket.destroy().
onUpgradeError ==
    /\ stage = "forwarded"
    /\ req.kind = "upgrade"
    /\ resp' = [NoResp EXCEPT !.by = "destroyed"]
    /\ stage' = "done"
    /\ ended' = TRUE
    /\ failure' = "before"
    /\ UNCHANGED <<isTls, req, fetched, resSet, proxyReq, depth, heads, pipeVars, storeVars, lockVars, cliVars>>

NextProxy ==
    \/ stage = "idle" /\ \E r \in Requests(isTls) : handleRequest(r)
    \/ stage = "idle" /\ \E r \in Requests(isTls), k \in 0..MaxBytes :
                            handleUpgrade(r, Bytes(1, k))
    \/ \E status \in BackendStatuses, headers \in BackendHeaders : onProxyRes(status, headers)
    \/ onProxyResEnd
    \/ onProxyResError
    \/ onProxyReqError
    \/ \E raw \in BackendRaws, k \in 0..MaxBytes : onUpgrade(raw, Bytes(1, k))
    \/ ClientSend
    \/ BackendSend
    \/ pipeToBackend
    \/ pipeToClient
    \/ \E status \in BackendStatuses, raw \in BackendRaws : onResponse(status, raw)
    \/ onUpgradeError

SpecProxy == InitProxy /\ [][NextProxy]_vars

(***************************************************************************)
(* Claims about one request or upgrade, under SpecProxy.                   *)
(***************************************************************************)
\* The routes of the table whose hostname is exactly host.
Matching(host) == {i \in 1..Len(cachedRoutes) : cachedRoutes[i].hostname = host}

RefusedWith(status) == resp.by = "proxy" /\ resp.status = status /\ ~proxyReq.sent

\* C6: a request whose effective host (the :authority when it is a non-empty
\* string, else Host, cut at the first ":") is empty is answered 400 and
\* nothing is forwarded, whatever the table holds; a request with a non-empty
\* host and a hop count below the threshold is forwarded to the port of the
\* route whose hostname equals the host exactly, and is answered 404 when
\* there is no such route.
C6_RoutesByExactHost ==
    (req.kind = "request" /\ stage # "idle") =>
        LET authority == headerOr(req.headers, ":authority")
            host == split0(IF authority # <<>> THEN authority
                           ELSE headerOr(req.headers, "host"))
            below == NumLess(hopsOf(req.headers), Exact(5))
        IN  /\ host = <<>> => RefusedWith(400)
            /\ (host # <<>> /\ below /\ Matching(host) # {}) =>
                   /\ proxyReq.sent
                   /\ \E i \in Matching(host) : proxyReq.port = cachedRoutes[i].port
            /\ (host # <<>> /\ below /\ Matching(host) = {}) => RefusedWith(404)

\* A request for "aa", which the table's second route serves, was forwarded
\* to that route's port; the table also holds a route for "a".
C6_Witness ==
    /\ req.kind = "request"
    /\ stage = "forwarded"
    /\ split0(getRequestHost(req.headers)) = <<"a", "a">>
    /\ proxyReq.port = 4002

\* C6 as stated: the effective host is the :authority if present, else Host,
\* and the 400 is given without the route table being fetched.
C6_AsStated ==
    (req.kind = "request" /\ stage # "idle") =>
        LET host == split0(IF ":authority" \in DOMAIN req.headers
                           THEN req.headers[":authority"]
                           ELSE headerOr(req.headers, "host"))
            below == NumLess(hopsOf(req.headers), Exact(5))
        IN  /\ host = <<>> => (RefusedWith(400) /\ ~fetched)
            /\ (host # <<>> /\ below /\ Matching(host) # {}) =>
                   /\ proxyReq.sent
                   /\ \E i \in Matching(host) : proxyReq.port = cachedRoutes[i].port
            /\ (host # <<>> /\ below /\ Matching(host) = {}) => RefusedWith(404)

\* C7: for a request (with a host) or an upgrade whose X-Portless-Hops parses
\* to h, absent or invalid counting as 0: if h >= 5 the proxy answers 508 and
\* sends nothing to a backend; if h < 5 and the request is forwarded, the
\* backend receives X-Portless-Hops = h + 1, strictly greater than h.
C7_HopsStrictlyIncrease ==
    (req.kind \in {"request", "upgrade"} /\ stage # "idle") =>
        LET h == hopsOf(req.headers)
            hasHost == split0(getRequestHost(req.headers)) # <<>>
        IN  /\ (~NumLess(h, Exact(5)) /\ (req.kind = "upgrade" \/ hasHost)) =>
                   RefusedWith(508)
            /\ (NumLess(h, Exact(5)) /\ proxyReq.sent) =>
                   /\ PORTLESS_HOPS_HEADER \in DOMAIN proxyReq.headers
                   /\ NumLess(h, parseInt(proxyReq.headers[PORTLESS_HOPS_HEADER]))

\* C9: every 400, 404 and 508 the proxy generates itself, on the request path
\* and on the upgrade path, carries X-Portless: 1.
C9_OwnResponsesCarryHeader ==
    (resp.by = "proxy" /\ resp.status \in {400, 404, 508}) =>
        IF req.kind = "request"
        THEN /\ PORTLESS_HEADER \in DOMAIN resp.headers
             /\ resp.headers[PORTLESS_HEADER] = "1"
        ELSE \E i \in 1..Len(resp.raw) : resp.raw[i] = <<"X-Portless", "1">>

\* C10: the response relayed for a forwarded request carries the backend's
\* headers (without the hop-by-hop ones when the proxy has TLS) and, besides
\* them, X-Portless: 1 unless the backend sent an X-Portless of its own; the
\* response relayed for a forwarded upgrade is the backend's header lines.
C10_RelayedHeaders ==
    resp.by = "backend" =>
        IF req.kind = "request"
        THEN LET given == resp.upstream.headers
                 kept == IF isTls THEN DOMAIN given \ HOP_BY_HOP_HEADERS ELSE DOMAIN given
             IN  /\ DOMAIN resp.headers = kept \cup {PORTLESS_HEADER}
                 /\ \A k \in kept : resp.headers[k] = given[k]
                 /\ PORTLESS_HEADER \notin kept => resp.headers[PORTLESS_HEADER] = "1"
        ELSE resp.raw = resp.upstream.raw

\* A backend response without X-Portless was relayed by a proxy with TLS.
C10_Witness ==
    /\ resp.by = "backend"
    /\ req.kind = "request"
    /\ isTls
    /\ "connection" \in DOMAIN resp.upstream.headers
    /\ PORTLESS_HEADER \notin DOMAIN resp.upstream.headers

\* C10 as stated: the relayed response carries the backend's headers only.
C10_AsStated ==
    (resp.by = "backend" /\ req.kind = "request") =>
        DOMAIN resp.headers \subseteq DOMAIN resp.upstream.headers

(***************************************************************************)
(* SpecLoop: the backend of every route sends each request it receives     *)
(* back to the proxy with the headers preserved, and answers with the      *)
(* response it gets.  The client's request arrives over HTTP/1.1 for a     *)
(* hostname that has a route.  depth counts the handlers waiting for their *)
(* backend; once it has reached MaxDepth it stays there, and so does the   *)
(* length of x-forwarded-for.  A handler that can run runs (WF): Node      *)
(* dispatches every request and every response it receives.                *)
(***************************************************************************)
InitLoop ==
    /\ isTls \in BOOLEAN
    /\ cachedRoutes \in RouteTables
    /\ req \in {r \in Requests(isTls) :
                    /\ r.kind = "request"
                    /\ r.conn # "tls-h2"
                    /\ findRoute(cachedRoutes, split0(getRequestHost(r.headers))) # NoRoute}
    /\ stage = "idle"
    /\ fetched = FALSE
    /\ resSet = NoHeaders
    /\ proxyReq = NoProxyReq
    /\ resp = NoResp
    /\ depth = 0
    /\ heads = 0
    /\ ended = FALSE
    /\ failure = "none"
    /\ toClient = <<>>
    /\ toBackend = <<>>
    /\ clientBuf = <<>>
    /\ backendBuf = <<>>
    /\ sent = [client |-> 0, backend |-> 0]
    /\ InitCliIdle
    /\ file = FileMissing
    /\ alive = Pids
    /\ lastCall = NoCall
    /\ expected = [h \in Hosts |-> None]
    /\ lastLoad = NoLoad
    /\ lock = "absent"
    /\ pc = [p \in Pids |-> "done"]
    /\ op = [p \in Pids |-> NoOp]
    /\ tries = [p \in Pids |-> 0]
    /\ local = [p \in Pids |-> <<>>]
    /\ res = [p \in Pids |-> "none"]
    /\ file0 = FileMissing
    /\ writing = NoRead
    /\ lastRead = NoRead

\* The backend sends the request it received back to the proxy.
LoopBack ==
    /\ stage = "forwarded"
    /\ req' = [kind |-> "request", conn |-> "plain",
               headers |-> IF depth < MaxDepth THEN proxyReq.headers
                           ELSE [proxyReq.headers EXCEPT
                                    !["x-forwarded-for"] = req.headers["x-forwarded-for"]]]
    /\ depth' = IF depth < MaxDepth THEN depth + 1 ELSE depth
    /\ stage' = "idle"
    /\ proxyReq' = NoProxyReq
    /\ UNCHANGED <<isTls, fetched, resSet, resp, outVars, pipeVars, storeVars, lockVars, cliVars>>

\* The backend answers the handler that waits for it with the response it got
\* from the proxy, and that handler's http.request callback relays it.
ReturnResponse ==
    /\ stage = "done"
    /\ depth > 0
    /\ depth < MaxDepth
    /\ resp' = relayed(resp.status, resp.headers, isTls, resSet)
    /\ depth' = depth - 1
    /\ UNCHANGED <<isTls, req, stage, fetched, resSet, proxyReq, outVars, pipeVars, storeVars, lockVars, cliVars>>

NextLoop ==
    \/ handleRequest(req)
    \/ LoopBack
    \/ ReturnResponse

SpecLoop == InitLoop /\ [][NextLoop]_vars /\ WF_vars(NextLoop)

\* C8: a request that enters the loop is in the end answered 508, and the 508
\* reaches the client: the loop does not go on for ever, whatever
\* X-Portless-Hops the client sent.
C8_LoopEnds == <>(stage = "done" /\ depth = 0 /\ resp.status = 508)

\* C11: connection, keep-alive, proxy-connection, transfer-encoding and
\* upgrade are removed from a relayed backend response when the request
\* arrived over HTTP/2, and are left as the backend sent them when the client
\* leg is HTTP/1.1, on a proxy with TLS as well as on one without.
C11_HopByHopOnlyForHttp2 ==
    (resp.by = "backend" /\ req.kind = "request") =>
        IF req.conn = "tls-h2"
        THEN DOMAIN resp.headers \cap HOP_BY_HOP_HEADERS = {}
        ELSE \A k \in DOMAIN resp.upstream.headers \cap HOP_BY_HOP_HEADERS :
                 /\ k \in DOMAIN resp.headers
                 /\ resp.headers[k] = resp.upstream.headers[k]

\* C12: a forwarded request without an incoming X-Forwarded-Proto reaches the
\* backend with X-Forwarded-Proto https when the request's own connection was
\* TLS and http when it was plain; an incoming value is passed on unchanged.
C12_ForwardedProtoOfConnection ==
    (req.kind \in {"request", "upgrade"} /\ proxyReq.sent) =>
        proxyReq.headers["x-forwarded-proto"] =
            IF "x-forwarded-proto" \in DOMAIN req.headers
            THEN req.headers["x-forwarded-proto"]
            ELSE IF req.conn \in {"tls-h1", "tls-h2"} THEN T_https ELSE T_http

C14_VerbatimUpgrade ==
    (req.kind = "upgrade" /\ resp.by = "backend" /\ resp.status = 101) =>
        /\ toClient \o backendBuf =
               <<StatusLine(101)>> \o Lines(resp.upstream.raw) \o Bytes(1, sent.backend)
        /\ toBackend \o clientBuf = Bytes(1, sent.client)

\* Both sides sent all their bytes, some before the sockets were piped, and
\* all were delivered; the backend's headers were two lines.
C14_Witness ==
    /\ req.kind = "upgrade"
    /\ resp.status = 101
    /\ Len(resp.upstream.raw) = 2
    /\ sent = [client |-> MaxBytes, backend |-> MaxBytes]
    /\ clientBuf = <<>>
    /\ backendBuf = <<>>
    /\ Len(toBackend) = MaxBytes
    /\ Len(toClient) = 3 + MaxBytes

(***************************************************************************)
(* SpecDaemon: `proxy start` and `proxy stop` commands, run one after the  *)
(* other, on one state directory.  Both ports are unprivileged, so         *)
(* resolveStateDir gives the same directory for them.  The daemons are     *)
(* plain HTTP.  Besides the commands, a daemon can be killed without       *)
(* running its cleanup, the pid of an ended process can be given to an     *)
(* unrelated process, and a stale pid-file can be corrupted.               *)
(***************************************************************************)
DEFAULT_PROXY_PORT == 1355

Serving(p) == procs[p].st \in {"listening", "running"}
ProcAlive(p) == p \in DOMAIN procs /\ procs[p].st \in {"starting", "listening", "running", "other"}

\* isProxyRunning(port): a HEAD request to the port is answered with
\* X-Portless: 1.
isProxyRunning(port) == port \in DOMAIN listener /\ listener[port] # 0

\* No command is in progress.
Quiet ==
    /\ stop.pc \in {"idle", "done"}
    /\ \A p \in DOMAIN procs : procs[p].st # "starting"

InitDaemon ==
    /\ InitCliIdle
    /\ InitProxyIdle
    /\ file = FileMissing
    /\ alive = Pids
    /\ lastCall = NoCall
    /\ expected = [h \in Hosts |-> None]
    /\ lastLoad = NoLoad
    /\ lock = "absent"
    /\ pc = [p \in Pids |-> "done"]
    /\ op = [p \in Pids |-> NoOp]
    /\ tries = [p \in Pids |-> 0]
    /\ local = [p \in Pids |-> <<>>]
    /\ res = [p \in Pids |-> "none"]
    /\ file0 = FileMissing
    /\ cachedRoutes = <<>>
    /\ writing = NoRead
    /\ lastRead = NoRead

\* `proxy start -p port`: main returns when a proxy answers on the port, and
\* otherwise forks the daemon (`proxy start --foreground`).
ProxyStart(port) ==
    /\ Quiet
    /\ ~isProxyRunning(port)
    /\ \E p \in DOMAIN procs :
           /\ procs[p].st = "none"
           /\ \A q \in DOMAIN procs : procs[q].st = "none" => p <= q
           /\ procs' = [procs EXCEPT ![p] = [st |-> "starting", port |-> port]]
    /\ UNCHANGED <<pidFile, portFile, listener, sigterm, stop,
                   storeVars, lockVars, proxyVars, runVars, watchVars, extVars>>

\* `proxy start` while a proxy answers on the port: "already running".
ProxyStartAgain(port) ==
    /\ Quiet
    /\ isProxyRunning(port)
    /\ stop' = NoStop
    /\ UNCHANGED <<pidFile, portFile, procs, listener, sigterm,
                   storeVars, lockVars, proxyVars, runVars, watchVars, extVars>>

\* The forked daemon's main: it exits when a proxy answers on its port, and
\* otherwise startProxyServer binds the port (EADDRINUSE ends the process).
DaemonMain(p) ==
    /\ procs[p].st = "starting"
    /\ IF isProxyRunning(procs[p].port) \/ listener[procs[p].port] # 0
       THEN /\ procs' = [procs EXCEPT ![p].st = "exited"]
            /\ UNCHANGED listener
       ELSE /\ procs' = [procs EXCEPT ![p].st = "listening"]
            /\ listener' = [listener EXCEPT ![procs[p].port] = p]
    /\ UNCHANGED <<pidFile, portFile, sigterm, stop, storeVars, lockVars, proxyVars, runVars, watchVars, extVars>>

\* The callback of server.listen: the pid-file and the port-file are written.
DaemonListening(p) ==
    /\ procs[p].st = "listening"
    /\ pidFile' = Holds(p)
    /\ portFile' = Holds(procs[p].port)
    /\ procs' = [procs EXCEPT ![p].st = "running"]
    /\ UNCHANGED <<listener, sigterm, stop, storeVars, lockVars, proxyVars, runVars, watchVars, extVars>>

\* SIGTERM arrives.  A daemon's cleanup unlinks the pid-file and the
\* port-file, closes the server and exits; any other process just ends.
DaemonCleanup(p) ==
    /\ p \in sigterm
    /\ sigterm' = sigterm \ {p}
    /\ IF Serving(p)
       THEN /\ pidFile' = NoFile
            /\ portFile' = NoFile
            /\ listener' = [listener EXCEPT ![procs[p].port] = 0]
            /\ procs' = [procs EXCEPT ![p].st = "exited"]
       ELSE /\ procs' = [procs EXCEPT ![p].st = IF ProcAlive(p) THEN "exited" ELSE @]
            /\ UNCHANGED <<pidFile, portFile, listener>>
    /\ UNCHANGED <<stop, storeVars, lockVars, proxyVars, runVars, watchVars, extVars>>

\* A daemon is killed (SIGKILL, crash): no cleanup runs.
DaemonKilled(p) ==
    /\ Serving(p)
    /\ procs' = [procs EXCEPT ![p].st = "exited"]
    /\ listener' = [listener EXCEPT ![procs[p].port] = 0]
    /\ UNCHANGED <<pidFile, portFile, sigterm, stop, storeVars, lockVars, proxyVars, runVars, watchVars, extVars>>

\* The pid of an ended process is given to an unrelated process.
PidReused(p) ==
    /\ procs[p].st = "exited"
    /\ procs' = [procs EXCEPT ![p].st = "other"]
    /\ UNCHANGED <<pidFile, portFile, listener, sigterm, stop,
                   storeVars, lockVars, proxyVars, runVars, watchVars, extVars>>

\* A pid-file that no daemon stands behind is damaged.
CorruptPidFile ==
    /\ Quiet
    /\ pidFile.st = "number"
    /\ \A p \in DOMAIN procs : ~Serving(p)
    /\ pidFile' = [st |-> "garbage", v |-> 0]
    /\ UNCHANGED <<portFile, procs, listener, sigterm, stop,
                   storeVars, lockVars, proxyVars, runVars, watchVars, extVars>>

\* discoverState(): the port of the port-file if a proxy answers on it, else
\* the default port.
discoverPort ==
    IF portFile.st = "number" /\ isProxyRunning(portFile.v)
    THEN portFile.v
    ELSE DEFAULT_PROXY_PORT

\* A mutant of stopCheck: the process is not tested for being alive.
stopCheck_NoAliveTest(f, isAlive) == IF f.st # "number" THEN "corrupt" ELSE "probe"

\* stopProxy with a pid-file present, up to its await: parseInt of the file's
\* text, then process.kill(pid, 0).
stopCheck(f, isAlive) ==
    IF f.st # "number" THEN "corrupt"
    ELSE IF ~isAlive THEN "dead"
    ELSE "probe"

\* `proxy stop`: discoverState, then stopProxy up to its await.  Without a
\* pid-file, the process listening on the port is looked up and killed.
StopBegin ==
    /\ Quiet
    /\ LET port == discoverPort
           found == [NoStop EXCEPT !.pc = "done", !.port = port,
                                   !.hadPidFile = pidFile.st # "absent",
                                   !.pid = pidFile.v,
                                   !.sawAlive = pidFile.st = "number" /\ ProcAlive(pidFile.v)]
           check == stopCheck(pidFile, ProcAlive(pidFile.v))
       IN  IF pidFile.st = "absent"
           THEN IF isProxyRunning(port)
                THEN /\ sigterm' = sigterm \cup {listener[port]}
                     /\ portFile' = NoFile
                     /\ stop' = [found EXCEPT !.sawProxy = TRUE,
                                              !.signalled = listener[port]]
                     /\ UNCHANGED pidFile
                ELSE /\ stop' = found
                     /\ UNCHANGED <<pidFile, portFile, sigterm>>
           ELSE IF check = "corrupt"
           THEN /\ pidFile' = NoFile
                /\ stop' = [found EXCEPT !.removed = TRUE]
                /\ UNCHANGED <<portFile, sigterm>>
           ELSE IF check = "dead"
           THEN /\ pidFile' = NoFile
                /\ portFile' = NoFile
                /\ stop' = [found EXCEPT !.removed = TRUE]
                /\ UNCHANGED sigterm
           ELSE /\ stop' = [found EXCEPT !.pc = "probe"]
                /\ UNCHANGED <<pidFile, portFile, sigterm>>
    /\ UNCHANGED <<procs, listener, storeVars, lockVars, proxyVars, runVars, watchVars, extVars>>

\* stopProxy after `await isProxyRunning(proxyPort, tls)`.
StopProbe ==
    /\ stop.pc = "probe"
    /\ IF ~isProxyRunning(stop.port)
       THEN /\ pidFile' = NoFile
            /\ stop' = [stop EXCEPT !.pc = "done", !.removed = TRUE]
       ELSE /\ stop' = [stop EXCEPT !.pc = "kill", !.sawProxy = TRUE]
            /\ UNCHANGED pidFile
    /\ UNCHANGED <<portFile, procs, listener, sigterm, storeVars, lockVars, proxyVars, runVars, watchVars, extVars>>

\* process.kill(pid, "SIGTERM"), then the two unlinks; ESRCH, when the
\* process has ended meanwhile, skips them.
StopKill ==
    /\ stop.pc = "kill"
    /\ IF ProcAlive(stop.pid)
       THEN /\ sigterm' = sigterm \cup {stop.pid}
            /\ pidFile' = NoFile
            /\ portFile' = NoFile
            /\ stop' = [stop EXCEPT !.pc = "done", !.signalled = stop.pid,
                                    !.removed = TRUE]
       ELSE /\ stop' = [stop EXCEPT !.pc = "done"]
            /\ UNCHANGED <<sigterm, pidFile, portFile>>
    /\ UNCHANGED <<procs, listener, storeVars, lockVars, proxyVars, runVars, watchVars, extVars>>

NextDaemon ==
    \/ \E port \in DaemonPorts : ProxyStart(port)
    \/ \E port \in DaemonPorts : ProxyStartAgain(port)
    \/ \E p \in DOMAIN procs : DaemonMain(p)
    \/ \E p \in DOMAIN procs : DaemonListening(p)
    \/ \E p \in DOMAIN procs : DaemonCleanup(p)
    \/ \E p \in DOMAIN procs : DaemonKilled(p)
    \/ \E p \in DOMAIN procs : PidReused(p)
    \/ CorruptPidFile
    \/ StopBegin
    \/ StopProbe
    \/ StopKill

SpecDaemon == InitDaemon /\ [][NextDaemon]_vars

\* C15: at most one live daemon uses the state directory, and while a daemon
\* runs (its files written, no SIGTERM sent to it) the pid-file and the
\* port-file hold its pid and its port.
C15_OneDaemonPerStateDir ==
    /\ Cardinality({p \in DOMAIN procs : Serving(p)}) <= 1
    /\ \A p \in DOMAIN procs :
           (procs[p].st = "running" /\ p \notin sigterm /\ stop.signalled # p) =>
               (pidFile = Holds(p) /\ portFile = Holds(procs[p].port))

\* C16: with a pid-file present, `proxy stop` sends SIGTERM to the pid the
\* file names, and only if it found that process alive and a proxy answering
\* on the port; if the pid did not parse, the process was dead or no proxy
\* answered, it sends no signal and removes the pid-file.
C16_StopSignalsOnlyLiveProxy ==
    (stop.pc = "done" /\ stop.hadPidFile) =>
        /\ stop.signalled # 0 =>
               (stop.signalled = stop.pid /\ stop.sawAlive /\ stop.sawProxy)
        /\ ~(stop.sawAlive /\ stop.sawProxy) =>
               (stop.signalled = 0 /\ stop.removed)

\* A stop found the pid-file naming a pid that an unrelated process now has,
\* and no proxy on the port: no signal, pid-file removed.
C16_Witness ==
    /\ stop.pc = "done"
    /\ stop.hadPidFile
    /\ stop.sawAlive
    /\ ~stop.sawProxy
    /\ stop.pid # 0
    /\ procs[stop.pid].st = "other"
    /\ pidFile = NoFile

\* C38: the stop command has not removed the pid-file it found: only
\* daemons create, overwrite or delete the files.
C38_OnlyDaemonChangesFiles == ~stop.removed

(***************************************************************************)
(* SpecRunner: one `portless <name> <cmd...>` process, from runApp's       *)
(* addRoute to its exit, with spawnCommand's handlers.  PORTLESS=0 runs    *)
(* the command without the proxy.  Other processes may end meanwhile.      *)
(***************************************************************************)
Signals == {"SIGHUP", "SIGINT", "SIGQUIT", "SIGABRT", "SIGKILL", "SIGTERM",
            "SIGUSR1", "SIGSEGV"}

\* The platform's signal numbers (Linux).
SignalNumber(signal) ==
    CASE signal = "SIGHUP" -> 1
      [] signal = "SIGINT" -> 2
      [] signal = "SIGQUIT" -> 3
      [] signal = "SIGABRT" -> 6
      [] signal = "SIGKILL" -> 9
      [] signal = "SIGUSR1" -> 10
      [] signal = "SIGSEGV" -> 11
      [] signal = "SIGTERM" -> 15

SIGNAL_CODES ==
    [signal \in {"SIGHUP", "SIGINT", "SIGQUIT", "SIGABRT", "SIGKILL", "SIGTERM"} |->
        SignalNumber(signal)]

\* 128 + (SIGNAL_CODES[signal] || 15)
signalExitCode(signal) ==
    128 + (IF signal \in DOMAIN SIGNAL_CODES THEN SIGNAL_CODES[signal] ELSE 15)

ExitCodes == {0, 1, 3}

\* store.addRoute(hostname, port, process.pid): no fourth argument, so the
\* parameter takes its default, whatever the command line held.
registerForce(wantForce) == FALSE

\* A mutant of spawnsAfter: the command is spawned whatever addRoute did.
spawnsAfter_Always(result) == TRUE

\* addRoute throwing ends runApp (main's catch exits with 1); spawnCommand is
\* reached only when it returned.
spawnsAfter(result) == result = "ok"

InTable(f, r) == \E i \in 1..Len(parsedRoutes(f)) : parsedRoutes(f)[i] = r

RunnerFiles ==
    {FileMissing} \cup {FileOf(<<Route(h, port, q)>>) : h \in Hosts, port \in {4001}, q \in Pids}

InitRunner ==
    /\ InitCliIdle
    /\ InitProxyIdle
    /\ file \in RunnerFiles
    /\ alive = Pids
    /\ lastCall = NoCall
    /\ expected = [h \in Hosts |-> None]
    /\ lastLoad = NoLoad
    /\ lock = "absent"
    /\ pc = [p \in Pids |-> "done"]
    /\ op = [p \in Pids |-> NoOp]
    /\ tries = [p \in Pids |-> 0]
    /\ local = [p \in Pids |-> <<>>]
    /\ res = [p \in Pids |-> "none"]
    /\ file0 = FileMissing
    /\ cachedRoutes = <<>>
    /\ writing = NoRead
    /\ lastRead = NoRead

\* runApp from "Register route" on: addRoute, then spawnCommand with the
\* onCleanup that removes the route.  wantForce: the user put --force on the
\* command line.  lockOk: acquireLock succeeded.
RunApp(h, port, pid, wantForce, lockOk) ==
    LET force == registerForce(wantForce)
        routes == loadRoutes(file, alive)
        conflict == addRouteConflict(routes, h, pid, force, alive)
        result == IF ~lockOk THEN "lockfail" ELSE IF conflict THEN "conflict" ELSE "ok"
        f1 == IF ~lockOk THEN file
              ELSE IF conflict THEN loadRoutesFile(file, alive, TRUE, TRUE)
              ELSE FileOf(addRouteList(routes, h, port, pid))
        spawns == spawnsAfter(result)
    IN  /\ runner.pc = "idle"
        /\ pid \in alive
        /\ file' = f1
        /\ runner' = [NoRunner EXCEPT
               !.pc = IF spawns THEN "spawned" ELSE "exited",
               !.wantForce = wantForce, !.hostname = h, !.port = port, !.pid = pid,
               !.force = force, !.registered = result,
               !.held = /\ HasHost(routes, h)
                        /\ FindHost(routes, h).pid # pid
                        /\ isProcessAlive(FindHost(routes, h).pid, alive),
               !.spawned = spawns,
               !.inTable = InTable(f1, Route(h, port, pid)),
               !.cause = IF spawns THEN "none" ELSE "throw",
               !.code = IF spawns THEN -1 ELSE 1]
        /\ child' = IF spawns THEN [NoChild EXCEPT !.st = "spawned"] ELSE NoChild
        /\ alive' = IF spawns THEN alive ELSE alive \ {pid}
        /\ UNCHANGED <<lastCall, expected, lastLoad, lockVars, proxyVars,
                       daemonVars, watchVars, extVars>>

\* PORTLESS=0 or PORTLESS=skip: main calls spawnCommand(args.slice(1)), no
\* route and no onCleanup.
RunBypass(pid) ==
    /\ runner.pc = "idle"
    /\ pid \in alive
    /\ runner' = [NoRunner EXCEPT !.pc = "spawned", !.bypass = TRUE, !.pid = pid,
                                  !.spawned = TRUE]
    /\ child' = [NoChild EXCEPT !.st = "spawned"]
    /\ UNCHANGED <<storeVars, lockVars, proxyVars, daemonVars, watchVars, extVars>>

\* The pid of another live process that owns the hostname's route in the
\* file, 0 if there is none.
takenOverBy(f, h, pid, alv) ==
    LET routes == parsedRoutes(f)
    IN  IF HasHost(routes, h) /\ FindHost(routes, h).pid # pid /\ FindHost(routes, h).pid \in alv
        THEN FindHost(routes, h).pid
        ELSE 0

\* runApp's onCleanup: store.removeRoute(hostname), with the lock held.
onCleanup(f, h, alv) == FileOf(removeRouteList(loadRoutes(f, alv), h))

\* Another live process calls store.addRoute(hostname, port, pid, true): with
\* force the hostname is taken over from its owner.
AddRouteForce(h, port, pid) ==
    /\ runner.pc = "spawned"
    /\ ~runner.bypass
    /\ pid \in alive
    /\ pid # runner.pid
    /\ ~addRouteConflict(loadRoutes(file, alive), h, pid, TRUE, alive)
    /\ file' = FileOf(addRouteList(loadRoutes(file, alive), h, port, pid))
    /\ UNCHANGED <<alive, lastCall, expected, lastLoad, lockVars, proxyVars, cliVars>>

\* spawnCommand's cleanup() and process.exit(code): onCleanup calls
\* removeRoute(hostname) and swallows what it throws.
cleanupAndExit(cause, code, lockOk) ==
    /\ runner.pc = "spawned"
    /\ file' = IF runner.bypass \/ ~lockOk THEN file
               ELSE onCleanup(file, runner.hostname, alive)
    /\ runner' = [runner EXCEPT !.pc = "exited", !.cause = cause, !.code = code,
                                !.removals = IF runner.bypass THEN @ ELSE @ + 1,
                                !.took = IF runner.bypass THEN 0
                                         ELSE takenOverBy(file, runner.hostname, runner.pid, alive),
                                !.kept = HasHost(parsedRoutes(file'), runner.hostname)]
    /\ alive' = alive \ {runner.pid}
    /\ UNCHANGED <<lastCall, expected, lastLoad, lockVars, proxyVars, daemonVars, watchVars, extVars>>

\* child.on("exit", (code, signal)) with signal null.
ChildExit(code, lockOk) ==
    /\ child.st = "spawned"
    /\ child' = [child EXCEPT !.st = "ended", !.code = code, !.signal = "none"]
    /\ cleanupAndExit("exit", code, lockOk)

\* child.on("exit", (code, signal)) with a signal: the child was terminated.
ChildSignalled(signal, lockOk) ==
    /\ child.st = "spawned"
    /\ child' = [child EXCEPT !.st = "ended", !.signal = signal]
    /\ cleanupAndExit("exit", signalExitCode(signal), lockOk)

\* child.on("error"): the command could not be started.
SpawnError(lockOk) ==
    /\ child.st = "spawned"
    /\ child' = [child EXCEPT !.st = "failed"]
    /\ cleanupAndExit("error", 1, lockOk)

\* handleSignal: SIGINT or SIGTERM reaches the runner; it is passed on to the
\* child with child.kill(signal).
RunnerSignal(signal, lockOk) ==
    /\ child.st = "spawned"
    /\ child' = [child EXCEPT !.signal = signal]
    /\ cleanupAndExit("signal", signalExitCode(signal), lockOk)

\* The child ends after the runner has gone.
ChildOutlives(code) ==
    /\ runner.pc = "exited"
    /\ child.st = "spawned"
    /\ child' = [child EXCEPT !.st = "ended", !.code = code]
    /\ UNCHANGED <<runner, storeVars, lockVars, proxyVars, daemonVars, watchVars, extVars>>

\* Another process ends.
OtherExits(pid) ==
    /\ pid # runner.pid
    /\ ProcessExit(pid)

NextRunner ==
    \/ \E h \in Hosts, port \in Ports, pid \in Pids, wantForce, lockOk \in BOOLEAN :
           RunApp(h, port, pid, wantForce, lockOk)
    \/ \E pid \in Pids : RunBypass(pid)
    \/ \E code \in ExitCodes, lockOk \in BOOLEAN : ChildExit(code, lockOk)
    \/ \E signal \in Signals, lockOk \in BOOLEAN : ChildSignalled(signal, lockOk)
    \/ \E lockOk \in BOOLEAN : SpawnError(lockOk)
    \/ \E signal \in {"SIGINT", "SIGTERM"}, lockOk \in BOOLEAN : RunnerSignal(signal, lockOk)
    \/ \E code \in ExitCodes : ChildOutlives(code)
    \/ \E pid \in Pids : OtherExits(pid)
    \/ \E h \in Hosts, port \in Ports, pid \in Pids : AddRouteForce(h, port, pid)

SpecRunner == InitRunner /\ [][NextRunner]_vars

\* C17: a runner that registers spawns its command only with its route
\* (hostname, port, own pid) in the table, never after a failed registration,
\* and attempts the removal exactly once when it ends after spawning, and not
\* before.
C17_RouteAroundChild ==
    /\ (runner.spawned /\ ~runner.bypass) =>
           (runner.registered = "ok" /\ runner.inTable)
    /\ runner.registered \in {"conflict", "lockfail"} => ~runner.spawned
    /\ (runner.pc = "exited" /\ runner.spawned /\ ~runner.bypass) =>
           (runner.removals = 1 /\ runner.cause \in {"exit", "error", "signal"})
    /\ runner.pc # "exited" => runner.removals = 0

\* A runner that registered, spawned and was ended by a signal.
C17_Witness ==
    /\ runner.pc = "exited"
    /\ runner.spawned
    /\ ~runner.bypass
    /\ runner.inTable
    /\ runner.cause = "signal"
    /\ runner.removals = 1

\* C18: addRoute is called with force = true exactly when the user asked for
\* force, and with force a hostname held by another live process is taken
\* over instead of the call failing with a conflict.
C18_ForceIffRequested ==
    runner.registered # "none" =>
        /\ runner.force = runner.wantForce
        /\ (runner.wantForce /\ runner.held /\ runner.registered # "lockfail") =>
               (runner.registered = "ok" /\ runner.inTable)

\* C19: after the child's exit event the runner's exit code is the child's
\* code when it exited normally, and 128 + the signal's number when a signal
\* terminated it.
C19_ExitCodeOfChild ==
    (runner.pc = "exited" /\ runner.cause = "exit") =>
        IF child.signal = "none"
        THEN runner.code = child.code
        ELSE runner.code = 128 + SignalNumber(child.signal)

\* C39: a runner that ends while another live process owns its hostname's
\* route leaves a route for that hostname in the table.
C39_ExitKeepsForeignRoute ==
    (runner.pc = "exited" /\ runner.took # 0) => runner.kept

(***************************************************************************)
(* SpecWatch: the daemon's route cache.  startProxyServer reads the file,  *)
(* then sets up fs.watch (or, when that throws, the polling interval);     *)
(* other processes write the file with fs.writeFileSync, which truncates   *)
(* and then writes; processes end.  The timers and the delivery of change  *)
(* events are fair.                                                        *)
(***************************************************************************)
WatchTables ==
    {<<>>, <<Route("app.localhost", 4001, 1)>>,
     <<Route("app.localhost", 4001, 1), Route("api.localhost", 4002, 2)>>}

InitWatch ==
    /\ InitCliIdle
    /\ InitProxyIdle
    /\ file \in {FileMissing} \cup {FileOf(rs) : rs \in WatchTables}
    /\ alive = Pids
    /\ lastCall = NoCall
    /\ expected = [h \in Hosts |-> None]
    /\ lastLoad = NoLoad
    /\ lock = "absent"
    /\ pc = [p \in Pids |-> "done"]
    /\ op = [p \in Pids |-> NoOp]
    /\ tries = [p \in Pids |-> 0]
    /\ local = [p \in Pids |-> <<>>]
    /\ res = [p \in Pids |-> "none"]
    /\ file0 = FileMissing
    /\ cachedRoutes = <<>>
    /\ writing = NoRead
    /\ lastRead = NoRead

\* startProxyServer up to `let cachedRoutes = store.loadRoutes()`: a missing
\* routes file is created as "[]".
WatchLoad ==
    /\ watch.st = "off"
    /\ LET f1 == IF file.st = "missing" THEN FileOf(<<>>) ELSE file
       IN  /\ file' = f1
           /\ cachedRoutes' = loadRoutes(f1, alive)
    /\ watch' = [watch EXCEPT !.st = "loaded", !.cacheVer = watch.fileVer]
    /\ UNCHANGED <<alive, lastCall, expected, lastLoad, lockVars_NoCache, proxyVars,
                   daemonVars, runVars, extVars>>

\* fs.watch(routesPath, callback), or setInterval(reloadRoutes,
\* POLL_INTERVAL_MS) when fs.watch throws.
WatchSetup(watchOk) ==
    /\ watch.st = "loaded"
    /\ watch' = [watch EXCEPT !.st = IF watchOk THEN "watching" ELSE "polling"]
    /\ UNCHANGED <<storeVars, lockVars, proxyVars, daemonVars, runVars, extVars>>

\* What a change of the file does to the watcher: an event is queued when
\* the watch exists.
changed(w) ==
    [w EXCEPT !.fileVer = @ + 1,
              !.events = IF w.st = "watching" THEN @ + 1 ELSE @]

\* Another process's addRoute/removeRoute has made routes.lock, and its
\* fs.writeFileSync(routesPath, ...) opens the file with O_TRUNC ...
WriteOpen ==
    /\ watch.st # "off"
    /\ watch.writes < MaxWrites
    /\ file.st = "ok"
    /\ lock = "fresh"
    /\ file' = FileTrunc
    /\ watch' = [changed(watch) EXCEPT !.writes = @ + 1]
    /\ UNCHANGED <<alive, lastCall, expected, lastLoad, lockVars, proxyVars,
                   daemonVars, runVars, extVars>>

\* ... and writes the JSON of its list.
WriteData(rs) ==
    /\ file.st = "trunc"
    /\ lock = "fresh"
    /\ file' = FileOf(rs)
    /\ watch' = changed(watch)
    /\ UNCHANGED <<alive, lastCall, expected, lastLoad, lockVars, proxyVars,
                   daemonVars, runVars, extVars>>

\* Another process's acquireLock: fs.mkdirSync(lockPath) makes the directory.
WriterLocks ==
    /\ lock = "absent"
    /\ file.st = "ok"
    /\ watch.writes < MaxWrites
    /\ lock' = "fresh"
    /\ UNCHANGED <<storeVars, pc, op, tries, local, res, file0, writing, lastRead, cachedRoutes,
                   proxyVars, cliVars>>

\* Another process's releaseLock, after its write or without one (a
\* conflict).
WriterUnlocks ==
    /\ lock = "fresh"
    /\ file.st = "ok"
    /\ lock' = "absent"
    /\ UNCHANGED <<storeVars, pc, op, tries, local, res, file0, writing, lastRead, cachedRoutes,
                   proxyVars, cliVars>>

\* The callback of fs.watch: clearTimeout(debounceTimer), then
\* debounceTimer = setTimeout(reloadRoutes, DEBOUNCE_MS).
OnWatchEvent ==
    /\ watch.events > 0
    /\ watch' = [watch EXCEPT !.events = @ - 1, !.timer = TRUE]
    /\ UNCHANGED <<storeVars, lockVars, proxyVars, daemonVars, runVars, extVars>>

\* A mutant of reloaded: the cache is kept.
reloaded_Keep(cur, f, alv) == cur

\* reloadRoutes: cachedRoutes = store.loadRoutes().
reloaded(cur, f, alv) == loadRoutes(f, alv)

\* The debounce timer fires.
TimerFire ==
    /\ watch.timer
    /\ cachedRoutes' = reloaded(cachedRoutes, file, alive)
    /\ watch' = [watch EXCEPT !.timer = FALSE, !.cacheVer = watch.fileVer]
    /\ UNCHANGED <<storeVars, lockVars_NoCache, proxyVars, daemonVars, runVars, extVars>>

\* The polling interval fires.
PollTick ==
    /\ watch.st = "polling"
    /\ cachedRoutes' = reloaded(cachedRoutes, file, alive)
    /\ watch' = [watch EXCEPT !.cacheVer = watch.fileVer]
    /\ UNCHANGED <<storeVars, lockVars_NoCache, proxyVars, daemonVars, runVars, extVars>>

\* A route's owner ends; the file is not touched.
OwnerExits(pid) ==
    /\ watch.st # "off"
    /\ pid \in alive
    /\ alive' = alive \ {pid}
    /\ UNCHANGED <<file, lastCall, expected, lastLoad, lockVars, proxyVars, cliVars>>

NextWatch ==
    \/ WatchLoad
    \/ \E watchOk \in BOOLEAN : WatchSetup(watchOk)
    \/ WriterLocks
    \/ WriteOpen
    \/ \E rs \in WatchTables : WriteData(rs)
    \/ WriterUnlocks
    \/ OnWatchEvent
    \/ TimerFire
    \/ PollTick
    \/ \E pid \in Pids : OwnerExits(pid)

SpecWatch ==
    /\ InitWatch
    /\ [][NextWatch]_vars
    /\ WF_vars(\E watchOk \in BOOLEAN : WatchSetup(watchOk))
    /\ WF_vars(OnWatchEvent)
    /\ WF_vars(TimerFire)
    /\ WF_vars(PollTick)

\* The file has changed since the daemon last read it.
Unread == watch.st # "off" /\ watch.cacheVer # watch.fileVer

\* C20: whenever the file has changed since the daemon read it, the cache
\* eventually equals the liveness-filtered content of the file, and the file
\* state the cache was read from never goes back.
C20_CacheFollowsFile ==
    /\ Unread ~> (cachedRoutes = loadRoutes(file, alive))
    /\ [][watch'.cacheVer >= watch.cacheVer]_vars

\* The daemon's cache holds a route whose owner has ended.
ServesDeadOwner ==
    /\ watch.st \in {"watching", "polling"}
    /\ \E i \in 1..Len(cachedRoutes) : ~isProcessAlive(cachedRoutes[i].pid, alive)

\* C40: whenever the running daemon's cache holds a route whose owner has
\* ended, it eventually holds no such route, whether or not the file is
\* written again.
C40_DeadOwnerRouteGoesAway ==
    ServesDeadOwner ~> ~ServesDeadOwner

(***************************************************************************)
(* SpecMode: the mode and the owner of routes.json in the system state     *)
(* directory (/tmp/portless, the directory of a proxy on a privileged      *)
(* port).  The daemon is started by root, directly or through sudo;        *)
(* registrants of any user call addRoute/removeRoute, whose saveRoutes     *)
(* writes the file.  A mode is the set of its permission bits; a process's *)
(* umask is the set of bits it clears when it creates a file.              *)
(***************************************************************************)
ModeBits == {"ur", "uw", "gr", "gw", "or", "ow"}
\* 0o644
FILE_MODE == {"ur", "uw", "gr", "or"}
\* 0o666
SYSTEM_FILE_MODE == {"ur", "uw", "gr", "gw", "or", "ow"}
\* 000, 002, 022, 027, 077
Umasks == {{}, {"ow"}, {"gw", "ow"}, {"gw", "or", "ow"}, {"gr", "gw", "or", "ow"}}
Users == {"root", "alice", "bob"}

\* open(path, O_WRONLY | O_TRUNC) by uid is allowed (the users are in
\* different groups).
mayWrite(uid, f) ==
    \/ uid = "root"
    \/ uid = f.owner /\ "uw" \in f.mode
    \/ uid # f.owner /\ "ow" \in f.mode

\* fs.writeFileSync(path, data, {mode}): the mode, less the umask, is given to
\* a file that is created; an existing file keeps its mode and owner.
writeFileSync(f, uid, mode, umask) ==
    IF f.exists THEN f
    ELSE [exists |-> TRUE, mode |-> mode \ umask, owner |-> uid]

\* fs.chmodSync(path, mode) by the owner or root; otherwise it throws, which
\* the callers ignore.
chmodSync(f, uid, mode) ==
    IF uid = "root" \/ uid = f.owner THEN [f EXCEPT !.mode = mode] ELSE f

\* fixOwnership(path): under sudo, the file is given to the real user.
fixOwnership(f, uid, sudo) ==
    IF sudo # "" /\ uid = "root" THEN [f EXCEPT !.owner = sudo] ELSE f

\* store.fileMode in the system state directory
fileMode == SYSTEM_FILE_MODE

InitMode ==
    /\ InitCliIdle
    /\ InitProxyIdle
    /\ file = FileMissing
    /\ alive = Pids
    /\ lastCall = NoCall
    /\ expected = [h \in Hosts |-> None]
    /\ lastLoad = NoLoad
    /\ lock = "absent"
    /\ pc = [p \in Pids |-> "done"]
    /\ op = [p \in Pids |-> NoOp]
    /\ tries = [p \in Pids |-> 0]
    /\ local = [p \in Pids |-> <<>>]
    /\ res = [p \in Pids |-> "none"]
    /\ file0 = FileMissing
    /\ cachedRoutes = <<>>
    /\ writing = NoRead
    /\ lastRead = NoRead

\* startProxyServer by root (sudo: the user who ran sudo, or ""): a missing
\* routes file is created with FILE_MODE, and the file is chmod'ed to
\* FILE_MODE.
StartCreatesRoutes(sudo, umask) ==
    /\ perm' = chmodSync(writeFileSync(perm, "root", FILE_MODE, umask), "root", FILE_MODE)
    /\ lastWrite' = [op |-> "start", uid |-> "root", sudo |-> sudo, umask |-> umask,
                     denied |-> FALSE]
    /\ UNCHANGED <<certVars, nameVars, holdVars, edgeVars, storeVars, lockVars, proxyVars, daemonVars, runVars, watchVars>>

\* saveRoutes of a registrant's addRoute/removeRoute: fs.writeFileSync with
\* store.fileMode (EACCES when the file may not be written), then
\* fixOwnership.
SaveRoutes(uid, sudo, umask) ==
    /\ sudo # "" => uid = "root"
    /\ LET denied == perm.exists /\ ~mayWrite(uid, perm)
       IN  /\ perm' = IF denied THEN perm
                      ELSE fixOwnership(writeFileSync(perm, uid, fileMode, umask), uid, sudo)
           /\ lastWrite' = [op |-> "save", uid |-> uid, sudo |-> sudo, umask |-> umask,
                            denied |-> denied]
    /\ UNCHANGED <<certVars, nameVars, holdVars, edgeVars, storeVars, lockVars, proxyVars, daemonVars, runVars, watchVars>>

NextMode ==
    \/ \E sudo \in {"", "alice"}, umask \in Umasks : StartCreatesRoutes(sudo, umask)
    \/ \E uid \in Users, sudo \in {"", "alice"}, umask \in Umasks : SaveRoutes(uid, sudo, umask)

SpecMode == InitMode /\ [][NextMode]_vars

\* C21: whenever routes.json exists in the system state directory, also right
\* after a root-started daemon created or touched it, its mode is 0666.
C21_SystemRoutesFileMode ==
    perm.exists => perm.mode = SYSTEM_FILE_MODE

(***************************************************************************)
(* SpecCerts: the certificates of one state directory over time.           *)
(* `proxy start --https` runs ensureCerts and starts a daemon with the     *)
(* default certificate and an SNI callback; the callback serves the        *)
(* default context for localhost and <name>.localhost and a per-hostname   *)
(* certificate, from its cache, from disk or newly generated, for a deeper *)
(* name.  The directory may hold certificates from earlier runs, SHA-1     *)
(* signed ones from an older OpenSSL among them.  Time is in days.         *)
(***************************************************************************)
CA_VALIDITY_DAYS == 3650
SERVER_VALIDITY_DAYS == 365
\* EXPIRY_BUFFER_MS, 7 days, in days
EXPIRY_BUFFER_DAYS == 7
Jumps == {7, 358, 3640}
ServerNames == {"localhost", "app.localhost", "chat.app.localhost"}

\* isCertValid(certPath) for a readable certificate:
\* Date.now() + EXPIRY_BUFFER_MS < expiry.
isCertValid(cert, day) == cert.exists /\ day + EXPIRY_BUFFER_DAYS < cert.notAfter

\* generateCA: a new self-signed CA (OpenSSL's default digest).
generateCA(id, day) ==
    [exists |-> TRUE, id |-> id, issuer |-> id, notAfter |-> day + CA_VALIDITY_DAYS,
     sig |-> "sha256"]

\* generateServerCert / generateHostCertAsync: a leaf signed with the CA on
\* disk.
generateLeaf(ca, day) ==
    [exists |-> TRUE, id |-> 0, issuer |-> ca.id, notAfter |-> day + SERVER_VALIDITY_DAYS,
     sig |-> "sha256"]

\* ensureCerts: the directory afterwards.
ensureCerts(d, day) ==
    LET caGenerated == ~isCertValid(d.ca, day)
        ca1 == IF caGenerated THEN generateCA(d.nextId, day) ELSE d.ca
        server1 == IF caGenerated \/ ~isCertValid(d.server, day)
                   THEN generateLeaf(ca1, day) ELSE d.server
    IN  [d EXCEPT !.ca = ca1, !.server = server1,
                  !.nextId = IF caGenerated THEN @ + 1 ELSE @]

\* isSimpleLocalhostSubdomain(servername) or servername === "localhost"
usesDefault(servername) == servername \in {"localhost", "app.localhost"}

\* What earlier runs may have left in the directory.
OldCerts(issuer) ==
    {NoCert} \cup
    {[exists |-> TRUE, id |-> 0, issuer |-> issuer, notAfter |-> SERVER_VALIDITY_DAYS, sig |-> g] :
        g \in {"sha1", "sha256"}}

InitCerts ==
    /\ certNow = [day |-> 0, ticks |-> 0]
    /\ \E g \in {"none", "sha1", "sha256"} :
           IF g = "none"
           THEN certDisk = NoDisk
           ELSE \E srv \in OldCerts(1), hst \in OldCerts(1) :
                    certDisk = [ca |-> [generateCA(1, 0) EXCEPT !.sig = g],
                                server |-> srv, host |-> hst, nextId |-> 2]
    /\ tlsMem = NoMem
    /\ served = NoServed
    /\ InitNamesIdle
    /\ InitHoldIdle
    /\ InitCliRest
    /\ InitProxyIdle
    /\ file = FileMissing
    /\ alive = Pids
    /\ lastCall = NoCall
    /\ expected = [h \in Hosts |-> None]
    /\ lastLoad = NoLoad
    /\ lock = "absent"
    /\ pc = [p \in Pids |-> "done"]
    /\ op = [p \in Pids |-> NoOp]
    /\ tries = [p \in Pids |-> 0]
    /\ local = [p \in Pids |-> <<>>]
    /\ res = [p \in Pids |-> "none"]
    /\ file0 = FileMissing
    /\ cachedRoutes = <<>>
    /\ writing = NoRead
    /\ lastRead = NoRead

\* `proxy start --https`: ensureCerts(stateDir), then the certificate and key
\* are read and createSNICallback is given them.  restart: the command
\* replaces this daemon (a new process with an empty cache); otherwise it
\* starts a proxy on another port and this daemon runs on.
StartHttps(restart) ==
    LET d1 == ensureCerts(certDisk, certNow.day)
    IN  /\ restart \/ tlsMem.running
        /\ certDisk' = d1
        /\ tlsMem' = IF restart
                     THEN [running |-> TRUE, default |-> d1.server, cache |-> NoCert,
                           pending |-> FALSE]
                     ELSE tlsMem
        /\ served' = [by |-> "ensureCerts", cert |-> d1.server, caId |-> d1.ca.id,
                      day |-> certNow.day]
        /\ UNCHANGED <<certNow, modeVars, nameVars, holdVars, edgeVars, storeVars, lockVars, proxyVars, daemonVars,
                       runVars, watchVars>>

\* The SNI callback, up to its callback or to the start of a generation.
SNICallback(servername) ==
    /\ tlsMem.running
    /\ IF usesDefault(servername)
       THEN /\ served' = [by |-> "default", cert |-> tlsMem.default,
                          caId |-> certDisk.ca.id, day |-> certNow.day]
            /\ UNCHANGED tlsMem
       ELSE IF tlsMem.cache.exists
       THEN /\ served' = [by |-> "cache", cert |-> tlsMem.cache,
                          caId |-> certDisk.ca.id, day |-> certNow.day]
            /\ UNCHANGED tlsMem
       ELSE IF isCertValid(certDisk.host, certNow.day)
       THEN /\ served' = [by |-> "disk", cert |-> certDisk.host,
                          caId |-> certDisk.ca.id, day |-> certNow.day]
            /\ tlsMem' = [tlsMem EXCEPT !.cache = certDisk.host]
       ELSE /\ tlsMem' = [tlsMem EXCEPT !.pending = TRUE]
            /\ UNCHANGED served
    /\ UNCHANGED <<certNow, certDisk, modeVars, nameVars, holdVars, edgeVars, storeVars, lockVars, proxyVars,
                   daemonVars, runVars, watchVars>>

\* generateHostCertAsync has finished: the certificate is on disk, signed by
\* the CA that was there then; it is cached and handed to the callbacks.
HostCertGenerated ==
    /\ tlsMem.pending
    /\ LET leaf == generateLeaf(certDisk.ca, certNow.day)
       IN  /\ certDisk' = [certDisk EXCEPT !.host = leaf]
           /\ tlsMem' = [tlsMem EXCEPT !.cache = leaf, !.pending = FALSE]
           /\ served' = [by |-> "generated", cert |-> leaf, caId |-> certDisk.ca.id,
                         day |-> certNow.day]
    /\ UNCHANGED <<certNow, modeVars, nameVars, holdVars, edgeVars, storeVars, lockVars, proxyVars, daemonVars,
                   runVars, watchVars>>

\* Time passes.
Tick(days) ==
    /\ certNow.ticks < MaxTicks
    /\ ~tlsMem.pending
    /\ certNow' = [day |-> certNow.day + days, ticks |-> certNow.ticks + 1]
    /\ UNCHANGED <<certDisk, tlsMem, served, modeVars, nameVars, holdVars, edgeVars, storeVars, lockVars, proxyVars,
                   daemonVars, runVars, watchVars>>

NextCerts ==
    \/ \E restart \in BOOLEAN : StartHttps(restart)
    \/ \E servername \in ServerNames : SNICallback(servername)
    \/ HostCertGenerated
    \/ \E days \in Jumps : Tick(days)

SpecCerts == InitCerts /\ [][NextCerts]_vars

\* C22: every leaf put into service, by ensureCerts or by the SNI callback,
\* is signed by the CA on disk at that time.
C22_LeafSignedByCurrentCA ==
    served.by # "none" => served.cert.issuer = served.caId

\* C23: no certificate within 7 days of its notAfter is put into service.
C23_NoExpiringCertServed ==
    served.by # "none" => served.day + EXPIRY_BUFFER_DAYS < served.cert.notAfter

\* C24: no SHA-1 signed certificate is served, and after ensureCerts no
\* SHA-1 signed CA or default leaf is left on disk.
C24_NoSha1Served ==
    served.by # "none" =>
        /\ served.cert.sig # "sha1"
        /\ served.by = "ensureCerts" => (certDisk.ca.sig # "sha1" /\ certDisk.server.sig # "sha1")

(***************************************************************************)
(* SpecNames: parseHostname on texts typed as <name>: an optional          *)
(* protocol, a few characters, and optionally ".localhost" or a path.  A   *)
(* text is the sequence of its characters.                                 *)
(***************************************************************************)
HttpPrefix == <<"h", "t", "t", "p", ":", "/", "/">>
HttpsPrefix == <<"h", "t", "t", "p", "s", ":", "/", "/">>
DotLocalhost == <<".", "l", "o", "c", "a", "l", "h", "o", "s", "t">>
NameChars == {"a", "A", "0", "-", ".", " ", "@"}
\* [a-z0-9] over the characters that occur
AlphaNum == {"a", "c", "h", "l", "o", "p", "s", "t", "0"}

startsWith(s, prefix) ==
    Len(s) >= Len(prefix) /\ SubSeq(s, 1, Len(prefix)) = prefix

endsWith(s, suffix) ==
    Len(s) >= Len(suffix) /\ SubSeq(s, Len(s) - Len(suffix) + 1, Len(s)) = suffix

RECURSIVE trimStart(_)
trimStart(s) == IF s # <<>> /\ Head(s) = " " THEN trimStart(Tail(s)) ELSE s

RECURSIVE trimEnd(_)
trimEnd(s) ==
    IF s # <<>> /\ s[Len(s)] = " " THEN trimEnd(SubSeq(s, 1, Len(s) - 1)) ELSE s

\* input.trim()
trim(s) == trimEnd(trimStart(s))

\* .replace(/^https?:\/\//, "")
stripProtocol(s) ==
    IF startsWith(s, HttpsPrefix) THEN SubSeq(s, Len(HttpsPrefix) + 1, Len(s))
    ELSE IF startsWith(s, HttpPrefix) THEN SubSeq(s, Len(HttpPrefix) + 1, Len(s))
    ELSE s

\* .split("/")[0]
firstSegment(s) ==
    IF \E i \in 1..Len(s) : s[i] = "/"
    THEN SubSeq(s, 1, (CHOOSE i \in 1..Len(s) :
                           s[i] = "/" /\ \A j \in 1..(i - 1) : s[j] # "/") - 1)
    ELSE s

\* .toLowerCase()
toLowerCase(s) == [i \in 1..Len(s) |-> IF s[i] = "A" THEN "a" ELSE s[i]]

\* name.includes("..")
hasDoubleDot(s) == \E i \in 1..(Len(s) - 1) : s[i] = "." /\ s[i + 1] = "."

\* /^[a-z0-9]([a-z0-9.-]*[a-z0-9])?$/.test(name)
nameRegex(s) ==
    /\ s # <<>>
    /\ s[1] \in AlphaNum
    /\ s[Len(s)] \in AlphaNum
    /\ \A i \in 2..(Len(s) - 1) : s[i] \in AlphaNum \cup {".", "-"}

parseHostname(input) ==
    LET typed == toLowerCase(firstSegment(stripProtocol(trim(input))))
        hostname == IF endsWith(typed, DotLocalhost) THEN typed ELSE typed \o DotLocalhost
        name == SubSeq(hostname, 1, Len(hostname) - Len(DotLocalhost))
    IN  IF typed = <<>> \/ typed = DotLocalhost
        THEN [st |-> "empty", hostname |-> <<>>]
        ELSE IF hasDoubleDot(name)
        THEN [st |-> "dots", hostname |-> <<>>]
        ELSE IF ~nameRegex(name)
        THEN [st |-> "invalid", hostname |-> <<>>]
        ELSE [st |-> "ok", hostname |-> hostname]

RECURSIVE TextsUpTo(_)
TextsUpTo(n) ==
    IF n = 0 THEN {<<>>}
    ELSE TextsUpTo(n - 1) \cup
         {Append(t, c) : t \in {u \in TextsUpTo(n - 1) : Len(u) = n - 1}, c \in NameChars}

NameInputs ==
    {pre \o body \o post :
        pre \in {<<>>, HttpPrefix, HttpsPrefix},
        body \in TextsUpTo(MaxName),
        post \in {<<>>, DotLocalhost, <<"/", "a">>}}

InitNames ==
    /\ nameIn \in NameInputs
    /\ nameOut = NoName
    /\ InitCertsIdle
    /\ InitHoldIdle
    /\ InitCliRest
    /\ InitProxyIdle
    /\ file = FileMissing
    /\ alive = Pids
    /\ lastCall = NoCall
    /\ expected = [h \in Hosts |-> None]
    /\ lastLoad = NoLoad
    /\ lock = "absent"
    /\ pc = [p \in Pids |-> "done"]
    /\ op = [p \in Pids |-> NoOp]
    /\ tries = [p \in Pids |-> 0]
    /\ local = [p \in Pids |-> <<>>]
    /\ res = [p \in Pids |-> "none"]
    /\ file0 = FileMissing
    /\ cachedRoutes = <<>>
    /\ writing = NoRead
    /\ lastRead = NoRead

\* runApp: const hostname = parseHostname(name)
ParseName ==
    /\ nameOut.st = "none"
    /\ nameOut' = parseHostname(nameIn)
    /\ UNCHANGED <<nameIn, modeVars, certVars, holdVars, edgeVars, storeVars, lockVars, proxyVars,
                   daemonVars, runVars, watchVars>>

NextNames == ParseName

SpecNames == InitNames /\ [][NextNames]_vars

\* The text before ".localhost" is dot-separated labels, each non-empty, of
\* [a-z0-9-] only, and neither beginning nor ending with a hyphen: no
\* character outside [a-z0-9.-], no dot or hyphen first or last, and no dot
\* next to a dot or a hyphen.
WellFormedHostname(h) ==
    /\ endsWith(h, DotLocalhost)
    /\ LET name == SubSeq(h, 1, Len(h) - Len(DotLocalhost))
       IN  /\ name # <<>>
           /\ \A i \in 1..Len(name) : name[i] \in AlphaNum \cup {".", "-"}
           /\ name[1] \in AlphaNum
           /\ name[Len(name)] \in AlphaNum
           /\ \A i \in 1..(Len(name) - 1) :
                  /\ name[i] = "." => name[i + 1] \in AlphaNum
                  /\ name[i + 1] = "." => name[i] \in AlphaNum

\* C25: every hostname parseHostname accepts is well formed.
C25_AcceptedHostnamesWellFormed ==
    nameOut.st = "ok" => WellFormedHostname(nameOut.hostname)

(***************************************************************************)
(* Claims about the route lock, under SpecLock.                            *)
(***************************************************************************)
\* The processes between acquireLock's return of true and the end of
\* releaseLock.
InLock == {p \in Pids : pc[p] \in {"load", "gcOpen", "gcWrite", "saveOpen", "saveWrite", "release"}}

\* C26: at no time are two processes both between their acquisition of the
\* route lock and their release of it.
C26_MutualExclusion == Cardinality(InLock) <= 1

\* C27: a call of addRoute/removeRoute that has ended, with a return or with
\* an exception, has not left behind the lock directory it created; and a
\* directory made by a process is there only while that process is in its
\* call.
C27_LockReleasedOnEveryExit ==
    \A p \in Pids :
        /\ pc[p] \in {"idle", "done"} => lockOwner # p
        /\ lockOwner = p => p \in InLock /\ lock # "absent"

\* A call that acquired the lock has ended with RouteConflictError, the other
\* process's call has ended as well, and no lock directory is left.
C27_Witness ==
    /\ \E p \in Pids : pc[p] = "done" /\ res[p] = "conflict" /\ acq[p].changed
    /\ \A p \in Pids : pc[p] = "done" /\ acq[p].changed
    /\ lock = "absent"

\* A call that acquired the lock has ended with the exception of a failed
\* write.
C27_FailedWriteCase ==
    \E p \in Pids : pc[p] = "done" /\ res[p] = "ioerror" /\ acq[p].changed /\ lock = "absent"

(***************************************************************************)
(* Claims about who writes the route file, under SpecWatch.                *)
(***************************************************************************)
\* C28: every step that changes the route file is taken while routes.lock
\* is held by the writer, and a reload of the running daemon's cache, which
\* takes no lock, leaves the file as it is.
C28_WritesOnlyUnderLock ==
    [][/\ file' # file => lock = "fresh"
       /\ (watch.st # "off" /\ cachedRoutes' # cachedRoutes) => file' = file]_vars

(***************************************************************************)
(* SpecCaller: one process calls addRoute or removeRoute while routes.lock *)
(* is absent, or was made by a holder outside the model: one that is still *)
(* at work (fresh), that may release it, or that crashed so that the       *)
(* directory grows older than STALE_LOCK_THRESHOLD_MS (stale).  The caller *)
(* keeps running: its steps are fair.                                      *)
(***************************************************************************)
Caller == 1

InitCaller ==
    /\ alive = Pids
    /\ file \in {FileOf(<<>>), FileOf(<<Route("app.localhost", 4001, GonePid)>>),
                 FileOf(<<Route("app.localhost", 4001, MaxPid)>>)}
    /\ file0 = file
    /\ lock \in {"absent", "fresh", "stale"}
    /\ pc = [p \in Pids |-> IF p = Caller THEN "idle" ELSE "done"]
    /\ op = [p \in Pids |-> NoOp]
    /\ tries = [p \in Pids |-> 0]
    /\ local = [p \in Pids |-> <<>>]
    /\ res = [p \in Pids |-> "none"]
    /\ cachedRoutes = loadRoutes(file, alive)
    /\ writing = NoRead
    /\ lastRead = NoRead
    /\ lastCall = NoCall
    /\ expected = [h \in Hosts |-> None]
    /\ lastLoad = NoLoad
    /\ InitProxyIdle
    /\ InitCliIdle

\* The holder of routes.lock has crashed and the directory's mtime is now more
\* than STALE_LOCK_THRESHOLD_MS ago.
HolderGoesStale ==
    /\ lock = "fresh"
    /\ lockOwner = 0
    /\ lock' = "stale"
    /\ UNCHANGED <<storeVars, pc, op, tries, local, res, file0, writing, lastRead, cachedRoutes,
                   proxyVars, cliVars>>

\* The holder's releaseLock.
HolderReleases ==
    /\ lock = "fresh"
    /\ lockOwner = 0
    /\ lock' = "absent"
    /\ UNCHANGED <<storeVars, pc, op, tries, local, res, file0, writing, lastRead, cachedRoutes,
                   proxyVars, cliVars>>

\* The caller's next step inside addRoute/removeRoute.
CallerStep ==
    \/ AcquireTimeout(Caller)
    \/ AcquireMkdir(Caller)
    \/ AcquireStat(Caller)
    \/ AcquireRm(Caller)
    \/ LockedLoad(Caller)
    \/ CleanupOpen(Caller)
    \/ CleanupWrite(Caller)
    \/ SaveOpen(Caller)
    \/ SaveWrite(Caller)
    \/ SaveFails(Caller)
    \/ ReleaseLock(Caller)

NextCaller ==
    \/ \E o \in Ops : Begin(Caller, o)
    \/ CallerStep
    \/ HolderGoesStale
    \/ HolderReleases

SpecCaller == InitCaller /\ [][NextCaller]_vars /\ WF_vars(CallerStep)

\* C29: acquireLock never calls mkdirSync more than LOCK_MAX_RETRIES times;
\* and a call that found routes.lock there and not stale at each of its
\* attempts has failed to acquire the lock after exactly LOCK_MAX_RETRIES
\* attempts, each followed by the sleep, and has changed neither the route
\* file nor the holder's lock directory.
C29_BoundedRetriesThenFail ==
    /\ acq[Caller].mkdirs <= MaxRetries
    /\ (pc[Caller] = "done" /\ ~acq[Caller].sawStale /\ ~acq[Caller].changed)
          => /\ res[Caller] = "lockfail"
             /\ acq[Caller].mkdirs = MaxRetries
             /\ acq[Caller].sleeps = MaxRetries
             /\ file = file0
             /\ lockOwner = 0
    /\ (pc[Caller] = "done" /\ res[Caller] = "lockfail" /\ ~acq[Caller].sawStale)
          => ~acq[Caller].changed

\* The call has failed with "Failed to acquire route lock" against a lock
\* that was fresh at each attempt and is still there.
C29_Witness ==
    /\ pc[Caller] = "done"
    /\ res[Caller] = "lockfail"
    /\ ~acq[Caller].sawStale
    /\ acq[Caller].mkdirs = MaxRetries
    /\ lock = "fresh"

\* C30: a call that starts while the lock directory of a crashed holder is
\* stale removes it, acquires the lock, and ends, with its write done or
\* with the exception of the conflict or of the write, and with the lock
\* released.
C30_StaleLockDoesNotBlock ==
    (pc[Caller] = "mkdir" /\ tries[Caller] = 0 /\ lock = "stale")
        ~> (/\ pc[Caller] = "done"
            /\ res[Caller] \in {"ok", "conflict", "ioerror"}
            /\ acq[Caller].sawStale
            /\ acq[Caller].changed
            /\ res[Caller] = "ok" => file = FileOf(local[Caller])
            /\ lock = "absent")

\* The call found the lock stale, broke it, wrote the table and released.
C30_Witness ==
    /\ pc[Caller] = "done"
    /\ res[Caller] = "ok"
    /\ acq[Caller].sawStale
    /\ acq[Caller].mkdirs = 2
    /\ file = FileOf(local[Caller])
    /\ file # file0
    /\ lock = "absent"

(***************************************************************************)
(* SpecSni: the callback made by createSNICallback, for TLS handshakes     *)
(* that all name the same deep subdomain (chat.app.localhost).  A secure   *)
(* context is <<certificate, object>>: tls.createSecureContext makes a new *)
(* object at each call.  A certificate made by generateHostCertAsync is    *)
(* named by the generation; the one that may be on disk at the start is    *)
(* OldHostCert.  hostDisk.cert = 0: no certificate of the name on disk, or *)
(* one that isCertValid rejects.                                           *)
(***************************************************************************)
Handshakes == 1..MaxHandshakes
NoCtx == <<0, 0>>
OldHostCert == MaxHandshakes + 1

\* pendingHas when the pending map is never consulted.
pendingHas_Never(m) == FALSE

\* cache.has(servername)
cacheHas(m) == m.cache # NoCtx

\* pending.has(servername)
pendingHas(m) == m.pending # 0

\* fileExists(certPath) && fileExists(keyPath) && isCertValid(certPath), and
\* the two readFileSync calls do not throw.
diskUsable(d) == d.cert # 0 /\ d.readable

\* Everything outside the daemon's sockets and handshakes at rest.
InitBaseIdle ==
    /\ InitProxyIdle
    /\ InitCertsIdle
    /\ InitNamesIdle
    /\ InitHoldIdle
    /\ InitCliCore
    /\ file = FileMissing
    /\ alive = Pids
    /\ lastCall = NoCall
    /\ expected = [h \in Hosts |-> None]
    /\ lastLoad = NoLoad
    /\ lock = "absent"
    /\ pc = [p \in Pids |-> "done"]
    /\ op = [p \in Pids |-> NoOp]
    /\ tries = [p \in Pids |-> 0]
    /\ local = [p \in Pids |-> <<>>]
    /\ res = [p \in Pids |-> "none"]
    /\ file0 = FileMissing
    /\ cachedRoutes = <<>>
    /\ writing = NoRead
    /\ lastRead = NoRead

InitSni ==
    /\ hs = [h \in Handshakes |-> NoHandshake]
    /\ sniMem = NoSniMem
    /\ gens = [g \in Handshakes |-> "none"]
    /\ hostDisk \in [cert : {0, OldHostCert}, readable : BOOLEAN]
    /\ InitBaseIdle
    /\ InitMuxIdle
    /\ InitLegsIdle
    /\ InitShutIdle

\* What cb is called with, written into the handshake's record.
called(rec, ctx, err) ==
    [rec EXCEPT !.st = "done", !.ctx = ctx, !.err = err, !.calls = @ + 1]

\* The callback for handshake h: the memory cache, then the files on disk,
\* then the pending map, then a new generateHostCertAsync whose promise is
\* put into pending.
SNICall(h) ==
    /\ hs[h].st = "none"
    /\ LET arrived == [hs[h] EXCEPT !.cold = ~cacheHas(sniMem),
                                    !.late = \E g \in Handshakes : gens[g] = "failed"]
       IN  IF cacheHas(sniMem)
           THEN /\ hs' = [hs EXCEPT ![h] = called(arrived, sniMem.cache, FALSE)]
                /\ UNCHANGED <<sniMem, gens>>
           ELSE IF diskUsable(hostDisk)
           THEN LET ctx == <<hostDisk.cert, sniMem.made + 1>>
                IN  /\ sniMem' = [sniMem EXCEPT !.cache = ctx, !.made = @ + 1]
                    /\ hs' = [hs EXCEPT ![h] = called(arrived, ctx, FALSE)]
                    /\ UNCHANGED gens
           ELSE IF pendingHas(sniMem)
           THEN /\ hs' = [hs EXCEPT ![h] = [arrived EXCEPT !.st = "waiting", !.gen = sniMem.pending]]
                /\ UNCHANGED <<sniMem, gens>>
           ELSE /\ gens' = [gens EXCEPT ![h] = "running"]
                /\ sniMem' = [sniMem EXCEPT !.pending = h]
                /\ hs' = [hs EXCEPT ![h] = [arrived EXCEPT !.st = "waiting", !.gen = h]]
    /\ UNCHANGED <<hostDisk, baseVars, edgeVars_NoSni>>

\* generateHostCertAsync: openssl has written the key and now `x509 -req`
\* writes certPath; the unlinks, the chmods and the promise's two readFile
\* calls are still to come.
GenWritesCert(g) ==
    /\ gens[g] = "running"
    /\ hostDisk.readable
    /\ gens' = [gens EXCEPT ![g] = "written"]
    /\ hostDisk' = [hostDisk EXCEPT !.cert = g]
    /\ UNCHANGED <<hs, sniMem, baseVars, edgeVars_NoSni>>

\* The promise is fulfilled: createSecureContext of the files read, then, as
\* microtasks in the order the handlers were attached, cache.set,
\* pending.delete and cb(null, ctx) of the starter, and cb(null, ctx) of
\* every handshake that waited on pending.get(servername).
GenResolves(g) ==
    /\ gens[g] = "written"
    /\ LET ctx == <<hostDisk.cert, sniMem.made + 1>>
       IN  /\ sniMem' = [cache |-> ctx, pending |-> 0, made |-> sniMem.made + 1]
           /\ hs' = [h \in Handshakes |->
                        IF hs[h].st = "waiting" /\ hs[h].gen = g
                        THEN called(hs[h], ctx, FALSE) ELSE hs[h]]
    /\ gens' = [gens EXCEPT ![g] = "done"]
    /\ UNCHANGED <<hostDisk, baseVars, edgeVars_NoSni>>

\* GenRejects without pending.delete(servername).
GenRejects_KeepsPending(g) ==
    /\ gens[g] \in {"running", "written"}
    /\ hs' = [h \in Handshakes |->
                 IF hs[h].st = "waiting" /\ hs[h].gen = g
                 THEN called(hs[h], NoCtx, TRUE) ELSE hs[h]]
    /\ gens' = [gens EXCEPT ![g] = "failed"]
    /\ UNCHANGED <<sniMem, hostDisk, baseVars, edgeVars_NoSni>>

\* The promise is rejected (openssl fails or times out, a chmod or a
\* readFile fails): pending.delete and cb(err) of the starter, cb(err) of
\* every waiter.
GenRejects(g) ==
    /\ gens[g] \in {"running", "written"}
    /\ sniMem' = [sniMem EXCEPT !.pending = 0]
    /\ hs' = [h \in Handshakes |->
                 IF hs[h].st = "waiting" /\ hs[h].gen = g
                 THEN called(hs[h], NoCtx, TRUE) ELSE hs[h]]
    /\ gens' = [gens EXCEPT ![g] = "failed"]
    /\ UNCHANGED <<hostDisk, baseVars, edgeVars_NoSni>>

NextSni ==
    \/ \E h \in Handshakes : SNICall(h)
    \/ \E g \in Handshakes : GenWritesCert(g)
    \/ \E g \in Handshakes : GenResolves(g)
    \/ \E g \in Handshakes : GenRejects(g)

SpecSni == InitSni /\ [][NextSni]_vars

Started == {g \in Handshakes : gens[g] # "none"}
InFlight == {g \in Handshakes : gens[g] \in {"running", "written"}}
Answered == {h \in Handshakes : hs[h].st = "done"}

Arrived == {h \in Handshakes : hs[h].st # "none"}
NoneDone == \A g \in Handshakes : gens[g] # "done"

\* C32 as stated: after a failed generation nothing is cached and a later
\* handshake goes to a generation (unless one has succeeded meanwhile).
C32_AsStated ==
    \A h \in Arrived : (hs[h].late /\ NoneDone) => (hs[h].cold /\ hs[h].gen # 0)

\* C32: cb is called once per handshake; the handshakes that waited on a
\* failed generation were all given the error and no context; the failed
\* generation is no longer pending and no handshake waits on a generation
\* that has ended; a context is cached only when some handshake was given one;
\* and a handshake after the failure goes to a generation whenever no usable
\* certificate of the name is on disk and none has succeeded meanwhile.
C32_FailureSurfacesOnce ==
    /\ \A h \in Handshakes : hs[h].calls = (IF hs[h].st = "done" THEN 1 ELSE 0)
    /\ \A h \in Handshakes : hs[h].st = "waiting" => hs[h].gen \in InFlight
    /\ \A g \in Handshakes : gens[g] = "failed" =>
           /\ sniMem.pending # g
           /\ \A h \in Handshakes : hs[h].gen = g =>
                  (hs[h].st = "done" /\ hs[h].err /\ hs[h].ctx = NoCtx)
    /\ cacheHas(sniMem) => \E h \in Answered : ~hs[h].err /\ hs[h].ctx[1] = sniMem.cache[1]
    /\ \A h \in Arrived :
           (hs[h].late /\ NoneDone /\ ~diskUsable(hostDisk)) => (hs[h].cold /\ hs[h].gen # 0)

\* A generation with two handshakes waiting has failed, and a third
\* handshake has started another generation.
C32_Witness ==
    \E g, h2, h3 \in Handshakes :
        /\ gens[g] = "failed"
        /\ h2 # g
        /\ hs[g].gen = g /\ hs[g].err /\ hs[g].calls = 1
        /\ hs[h2].gen = g /\ hs[h2].err /\ hs[h2].calls = 1
        /\ hs[h3].late /\ hs[h3].gen = h3
        /\ gens[h3] # "none"

(***************************************************************************)
(* SpecMux: createProxyServer with tls: the net.Server that wraps the      *)
(* HTTP/2 secure server and the plain HTTP server.  One accepted socket:   *)
(* buf is its readable buffer, eof the client's FIN, got what the inner    *)
(* server has read, log all the client sent, handed the number of          *)
(* emit("connection", socket) calls.                                       *)
(***************************************************************************)
TLS_HANDSHAKE_BYTE == 22
StreamBytes == {TLS_HANDSHAKE_BYTE, TLS_HANDSHAKE_BYTE + 1, 71}

\* socket.read(1): the first byte of the buffer, or null (<<>>) when the
\* buffer holds none; and what is left in the buffer.
read1(buf) ==
    IF buf = <<>> THEN [data |-> <<>>, rest |-> <<>>]
    ELSE [data |-> <<buf[1]>>, rest |-> Tail(buf)]

\* unshift when the byte read is not put back.
unshift_Dropped(data, rest) == rest

\* socket.unshift(buf): the bytes go back to the front of the buffer.
unshift(data, rest) == data \o rest

\* buf[0] === 0x16 ? h2Server : plainServer
innerServer(b) == IF b = TLS_HANDSHAKE_BYTE THEN "tls" ELSE "plain"

InitMux ==
    /\ mux = NoMux
    /\ InitBaseIdle
    /\ InitSniIdle
    /\ InitLegsIdle
    /\ InitShutIdle

\* The wrapper's connection listener: socket.once("readable", ...).
MuxAccept ==
    /\ mux.st = "none"
    /\ mux' = [mux EXCEPT !.st = "accepted"]
    /\ UNCHANGED <<baseVars, edgeVars_NoMux>>

\* A byte of the client arrives in the socket's buffer.
ClientSends(b) ==
    /\ mux.st \in {"accepted", "tls", "plain"}
    /\ ~mux.eof
    /\ Len(mux.log) < MaxStream
    /\ mux' = [mux EXCEPT !.buf = Append(@, b), !.log = Append(@, b)]
    /\ UNCHANGED <<baseVars, edgeVars_NoMux>>

\* The client's FIN arrives.
ClientEnds ==
    /\ mux.st \in {"accepted", "tls", "plain"}
    /\ ~mux.eof
    /\ mux' = [mux EXCEPT !.eof = TRUE]
    /\ UNCHANGED <<baseVars, edgeVars_NoMux>>

\* The connection is reset before the readable listener has run: the socket
\* is destroyed by its own error.
ClientResets ==
    /\ mux.st = "accepted"
    /\ mux' = [mux EXCEPT !.st = "destroyed", !.buf = <<>>]
    /\ UNCHANGED <<baseVars, edgeVars_NoMux>>

\* The once("readable") listener; "readable" is emitted when the buffer has
\* data and when the stream has ended.
OnReadable ==
    /\ mux.st = "accepted"
    /\ mux.buf # <<>> \/ mux.eof
    /\ LET r == read1(mux.buf)
       IN  IF r.data = <<>>
           THEN mux' = [mux EXCEPT !.st = "destroyed"]
           ELSE mux' = [mux EXCEPT !.st = innerServer(r.data[1]),
                                   !.buf = unshift(r.data, r.rest),
                                   !.handed = @ + 1]
    /\ UNCHANGED <<baseVars, edgeVars_NoMux>>

\* The inner server the socket was handed to reads what is in the buffer.
InnerReads ==
    /\ mux.st \in {"tls", "plain"}
    /\ mux.buf # <<>>
    /\ mux' = [mux EXCEPT !.got = @ \o mux.buf, !.buf = <<>>]
    /\ UNCHANGED <<baseVars, edgeVars_NoMux>>

NextMux ==
    \/ MuxAccept
    \/ \E b \in StreamBytes : ClientSends(b)
    \/ ClientEnds
    \/ ClientResets
    \/ OnReadable
    \/ InnerReads

SpecMux == InitMux /\ [][NextMux]_vars

\* C33: the socket is handed over at most once; to the TLS server exactly
\* when the first byte the client sent is 0x16 and to the plain server
\* exactly when it is another byte; what the inner server has read and what
\* is still buffered are together all the client sent, from its first byte
\* on; and a socket that was destroyed was handed to no server.
C33_OneServerByFirstByte ==
    /\ mux.handed = (IF mux.st \in {"tls", "plain"} THEN 1 ELSE 0)
    /\ mux.st \in {"tls", "plain"} =>
           /\ mux.log # <<>>
           /\ mux.st = "tls" <=> mux.log[1] = TLS_HANDSHAKE_BYTE
           /\ mux.got \o mux.buf = mux.log
    /\ mux.st \in {"none", "accepted", "destroyed"} => mux.got = <<>>
    /\ (mux.st = "accepted" /\ mux.log = <<>> /\ mux.eof) => ENABLED OnReadable

\* The plain server has read a whole stream that began with a byte other
\* than 0x16.
C33_Witness ==
    /\ mux.st = "plain"
    /\ mux.eof
    /\ Len(mux.log) = MaxStream
    /\ mux.got = mux.log
    /\ mux.log[1] = TLS_HANDSHAKE_BYTE + 1

\* The TLS server has read a stream that began with 0x16.
C33_TlsCase == mux.st = "tls" /\ mux.got = mux.log /\ Len(mux.log) > 1

\* The client closed without a byte and the socket was destroyed.
C33_EmptyCase == mux.st = "destroyed" /\ mux.eof /\ mux.log = <<>>

(***************************************************************************)
(* SpecLegs: one exchange that handleRequest or handleUpgrade has passed   *)
(* on to a backend with http.request.  client is the client's side (res    *)
(* and its socket for a request, the upgrade's socket), backend the        *)
(* outbound side (proxyReq, then proxyRes or proxySocket).  phase is       *)
(* "waiting" until the backend's response head or 101 has come, then       *)
(* "streaming".  Events are emitted first and handled in a later step.     *)
(***************************************************************************)
LegKinds == {"request", "upgrade"}

\* x.destroy() of a request or socket.
destroy(side) == IF side \in {"open", "errored"} THEN "destroyed" ELSE side

\* onResClose when the listener does nothing.
onResClose_Ignored(l) == l

\* res.on("close", ...) and req.on("error", ...) of handleRequest:
\* if (!proxyReq.destroyed) proxyReq.destroy().
onResClose(l) == [l EXCEPT !.backend = destroy(@)]

\* The "error" listeners on the upgrade's client socket: socket.destroy(),
\* registered at the start of handleUpgrade, and proxySocket.destroy(),
\* registered in the "upgrade" listener of proxyReq, that is once the 101 has
\* come.
onSocketError(l) ==
    IF l.phase = "streaming"
    THEN [l EXCEPT !.client = destroy(@), !.backend = destroy(@)]
    ELSE [l EXCEPT !.client = destroy(@)]

\* The "error" listeners of the backend side.  handleRequest: proxyReq's
\* writes the 502 and ends res when no head was sent, proxyRes's ends res.
\* handleUpgrade: proxyReq's and proxySocket's call socket.destroy().
onBackendError(l) ==
    IF l.kind = "request"
    THEN [l EXCEPT !.client = IF @ = "open" THEN "ended" ELSE @]
    ELSE [l EXCEPT !.client = destroy(@)]

InitLegs ==
    /\ legs = NoLegs
    /\ InitBaseIdle
    /\ InitSniIdle
    /\ InitMuxIdle
    /\ InitShutIdle

\* handleRequest or handleUpgrade has found the route and called
\* http.request; its listeners are registered in the same turn.
LegStart(k) ==
    /\ legs.kind = "none"
    /\ legs' = [kind |-> k, phase |-> "waiting", client |-> "open", backend |-> "open",
                ev |-> {}, cause |-> "none", up |-> 0, down |-> 0]
    /\ UNCHANGED <<baseVars, edgeVars_NoLegs>>

\* The backend's response head (the callback of http.request) or its 101
\* (proxyReq's "upgrade"): the head is written to the client and the pipes
\* are set up.
BackendHead ==
    /\ legs.phase = "waiting"
    /\ legs.backend = "open"
    /\ "backendError" \notin legs.ev
    /\ legs' = [legs EXCEPT !.phase = "streaming"]
    /\ UNCHANGED <<baseVars, edgeVars_NoLegs>>

\* req.pipe(proxyReq), or socket.pipe(proxySocket) after the 101: a chunk
\* of the client goes to the backend.
PipeUp ==
    /\ legs.client = "open"
    /\ legs.backend = "open"
    /\ legs.kind = "upgrade" => legs.phase = "streaming"
    /\ legs.up < MaxBytes
    /\ legs' = [legs EXCEPT !.up = @ + 1]
    /\ UNCHANGED <<baseVars, edgeVars_NoLegs>>

\* proxyRes.pipe(res) or proxySocket.pipe(socket): a chunk of the backend
\* goes to the client.
PipeDown ==
    /\ legs.phase = "streaming"
    /\ legs.client = "open"
    /\ legs.backend = "open"
    /\ legs.down < MaxBytes
    /\ legs' = [legs EXCEPT !.down = @ + 1]
    /\ UNCHANGED <<baseVars, edgeVars_NoLegs>>

\* The backend's response or stream ends; the pipe ends the client's side.
BackendEnd ==
    /\ legs.phase = "streaming"
    /\ legs.backend = "open"
    /\ legs.client = "open"
    /\ legs' = [legs EXCEPT !.backend = "ended", !.client = "ended",
                            !.cause = IF @ = "none" THEN "end" ELSE @]
    /\ UNCHANGED <<baseVars, edgeVars_NoLegs>>

\* The client of a request goes away: its connection closes and res emits
\* "close".
ClientCloses ==
    /\ legs.kind = "request"
    /\ legs.client = "open"
    /\ legs' = [legs EXCEPT !.client = "closed", !.ev = @ \cup {"resClose"},
                            !.cause = IF @ = "none" THEN "client" ELSE @]
    /\ UNCHANGED <<baseVars, edgeVars_NoLegs>>

\* The client socket of an upgrade has an error: the socket emits "error".
ClientSocketError ==
    /\ legs.kind = "upgrade"
    /\ legs.client = "open"
    /\ legs' = [legs EXCEPT !.client = "errored", !.ev = @ \cup {"socketError"},
                            !.cause = IF @ = "none" THEN "client" ELSE @]
    /\ UNCHANGED <<baseVars, edgeVars_NoLegs>>

\* The backend side has an error (refused, reset): it emits "error".
BackendError ==
    /\ legs.backend = "open"
    /\ legs' = [legs EXCEPT !.backend = "errored", !.ev = @ \cup {"backendError"},
                            !.cause = IF @ = "none" THEN "backend" ELSE @]
    /\ UNCHANGED <<baseVars, edgeVars_NoLegs>>

\* An emitted event is handled by the listeners registered for it.
HandleEvent(e) ==
    /\ e \in legs.ev
    /\ LET l == [legs EXCEPT !.ev = @ \ {e}]
       IN  legs' = CASE e = "resClose" -> onResClose(l)
                     [] e = "socketError" -> onSocketError(l)
                     [] e = "backendError" -> onBackendError(l)
    /\ UNCHANGED <<baseVars, edgeVars_NoLegs>>

NextLegs ==
    \/ \E k \in LegKinds : LegStart(k)
    \/ BackendHead
    \/ PipeUp
    \/ PipeDown
    \/ BackendEnd
    \/ ClientCloses
    \/ ClientSocketError
    \/ BackendError
    \/ \E e \in {"resClose", "socketError", "backendError"} : HandleEvent(e)

SpecLegs == InitLegs /\ [][NextLegs]_vars

\* C34: once the "close" of a request's response has been handled, the
\* backend request is not open: it was destroyed, or it had ended or failed
\* before.
C34_BackendDestroyedOnClientClose ==
    (legs.kind = "request" /\ legs.client = "closed" /\ "resClose" \notin legs.ev)
        => legs.backend # "open"

\* The client went away before the backend's head, and the backend request
\* was destroyed.
C34_Witness ==
    /\ legs.kind = "request"
    /\ legs.cause = "client"
    /\ legs.phase = "waiting"
    /\ legs.ev = {}
    /\ legs.backend = "destroyed"

\* C35: for an upgrade, once the emitted events have been handled, no side
\* is open while the other one has had an error or was destroyed.
C35_NoLegLeftAlone ==
    (legs.kind = "upgrade" /\ legs.ev = {}) =>
        /\ legs.client \in {"errored", "destroyed"} => legs.backend # "open"
        /\ legs.backend \in {"errored", "destroyed"} => legs.client # "open"

(***************************************************************************)
(* SpecShut: one daemon process from startProxyServer to its exit.  The    *)
(* state directory may hold the files of another daemon; the bind succeeds *)
(* or fails; connections open and close; SIGINT and SIGTERM arrive.  The   *)
(* files are "absent", "other" (written by someone else) or "own".         *)
(***************************************************************************)
EXIT_TIMEOUT_MS == 2000

BindResults == {"ok", "EADDRINUSE", "EACCES"}

\* The operations of cleanup, in the order of its statements.
CleanupOrder == <<"watcher", "pid", "port", "marker", "close", "timer">>

\* writeTlsMarker(dir, enabled): the marker is written, or unlinked.
writeTlsMarker(f, enabled) ==
    [f EXCEPT !.marker = IF enabled THEN "own" ELSE "absent"]

\* A mutant of alreadyExiting: the flag is never seen.
alreadyExiting_Never(d) == FALSE

\* `if (exiting) return;`
alreadyExiting(d) == d.exiting

\* A mutant of onServerError: the failed daemon unlinks the files.
onServerError_Unlinks(d) ==
    [d EXCEPT !.st = "exited", !.code = 1, !.files = NoFiles]

\* server.on("error"): a message, then process.exit(1).
onServerError(d) == [d EXCEPT !.st = "exited", !.code = 1]

\* The daemon is forked with a state directory that is empty or holds the
\* files of another daemon.
InitShut ==
    /\ \E tls \in BOOLEAN, bind \in BindResults,
          f \in {NoFiles, [pid |-> "other", port |-> "other", marker |-> "absent"],
                 [pid |-> "other", port |-> "other", marker |-> "other"]} :
           shut = [NoShut EXCEPT !.st = "forked", !.tls = tls, !.bind = bind,
                                 !.files = f, !.files0 = f]
    /\ InitBaseIdle
    /\ InitSniIdle
    /\ InitMuxIdle
    /\ InitLegsIdle

\* startProxyServer up to its return: the routes are loaded and watched (or
\* polled, when fs.watch throws), server.listen binds the port, and the
\* signal handlers are registered.
StartProxyServer(w) ==
    /\ shut.st = "forked"
    /\ shut' = [shut EXCEPT !.st = IF shut.bind = "ok" THEN "bound" ELSE "failing",
                            !.watcher = w,
                            !.listener = IF shut.bind = "ok" THEN "listening" ELSE "none"]
    /\ UNCHANGED <<baseVars, edgeVars_NoShut>>

\* The callback of server.listen: pid-file, port-file, TLS marker.
OnListening ==
    /\ shut.st = "bound"
    /\ shut' = [shut EXCEPT !.st = "up",
                            !.files = writeTlsMarker([@ EXCEPT !.pid = "own", !.port = "own"],
                                                     shut.tls)]
    /\ UNCHANGED <<baseVars, edgeVars_NoShut>>

\* The "error" event of the server whose bind failed.
OnServerError ==
    /\ shut.st = "failing"
    /\ shut' = onServerError(shut)
    /\ UNCHANGED <<baseVars, edgeVars_NoShut>>

\* A client connects.
ConnOpens ==
    /\ shut.st = "up"
    /\ shut.listener = "listening"
    /\ shut.conns < MaxConns
    /\ shut' = [shut EXCEPT !.conns = @ + 1]
    /\ UNCHANGED <<baseVars, edgeVars_NoShut>>

\* A connection ends.
ConnCloses ==
    /\ shut.st = "up"
    /\ shut.conns > 0
    /\ shut' = [shut EXCEPT !.conns = @ - 1]
    /\ UNCHANGED <<baseVars, edgeVars_NoShut>>

\* SIGINT or SIGTERM is sent to the daemon.
SignalArrives(sig) ==
    /\ shut.st = "up"
    /\ shut.sent < MaxSignals
    /\ shut' = [shut EXCEPT !.sigs = Append(@, sig), !.sent = @ + 1]
    /\ UNCHANGED <<baseVars, edgeVars_NoShut>>

\* cleanup, the handler of both signals.
OnSignal ==
    /\ shut.st = "up"
    /\ shut.sigs # <<>>
    /\ IF alreadyExiting(shut)
       THEN shut' = [shut EXCEPT !.sigs = Tail(@), !.handled = @ + 1]
       ELSE shut' = [shut EXCEPT !.sigs = Tail(@), !.handled = @ + 1,
                                 !.exiting = TRUE,
                                 !.watcher = "off",
                                 !.files = writeTlsMarker([@ EXCEPT !.pid = "absent",
                                                                    !.port = "absent"], FALSE),
                                 !.listener = "closing",
                                 !.timer = TRUE,
                                 !.log = @ \o CleanupOrder]
    /\ UNCHANGED <<baseVars, edgeVars_NoShut>>

\* The callback of server.close, once no connection is left: exit(0).
CloseCallback ==
    /\ shut.st = "up"
    /\ shut.listener = "closing"
    /\ shut.conns = 0
    /\ shut' = [shut EXCEPT !.st = "exited", !.code = 0, !.listener = "closed"]
    /\ UNCHANGED <<baseVars, edgeVars_NoShut>>

\* The timer set by cleanup fires after EXIT_TIMEOUT_MS: exit(0).
ExitTimer ==
    /\ shut.st = "up"
    /\ shut.timer
    /\ shut' = [shut EXCEPT !.st = "exited", !.code = 0, !.timer = FALSE]
    /\ UNCHANGED <<baseVars, edgeVars_NoShut>>

NextShut ==
    \/ \E w \in {"watch", "poll"} : StartProxyServer(w)
    \/ OnListening
    \/ OnServerError
    \/ ConnOpens
    \/ ConnCloses
    \/ \E sig \in {"SIGINT", "SIGTERM"} : SignalArrives(sig)
    \/ OnSignal
    \/ CloseCallback
    \/ ExitTimer

\* Node runs a pending callback, handler or timer; clients need not go away.
SpecShut ==
    /\ InitShut
    /\ [][NextShut]_vars
    /\ WF_vars(OnListening)
    /\ WF_vars(OnServerError)
    /\ WF_vars(OnSignal)
    /\ WF_vars(CloseCallback)
    /\ WF_vars(ExitTimer)

\* C36: once a signal has been handled, cleanup has run its operations once,
\* in the order watcher, pid-file, port-file, TLS marker, listener close
\* (and the exit timer), however many signals were handled; the watcher is
\* off, the three files are gone, the listener is not accepting; and the
\* process exits, whether or not its connections end.
C36_OrderlyShutdown ==
    /\ [](shut.handled >= 1 =>
            /\ shut.log = CleanupOrder
            /\ shut.watcher = "off"
            /\ shut.files = NoFiles
            /\ shut.listener # "listening")
    /\ (shut.handled >= 1 ~> shut.st = "exited")

\* Two signals were handled, the connections never went away, and the
\* process has exited with the cleanup done once.
C36_Witness ==
    /\ shut.handled = 2
    /\ shut.conns > 0
    /\ shut.st = "exited"
    /\ shut.code = 0
    /\ shut.log = CleanupOrder
    /\ shut.files0.pid = "other"

\* C37: until its listen callback has run the daemon has not changed the
\* pid-file, the port-file or the TLS marker; a daemon whose bind failed
\* exits with status 1 and the three files as it found them.
C37_FilesOnlyAfterBind ==
    /\ shut.st \in {"forked", "bound", "failing"} => shut.files = shut.files0
    /\ (shut.st = "exited" /\ shut.bind # "ok") =>
           (shut.code = 1 /\ shut.files = shut.files0 /\ shut.log = <<>>)
    /\ shut.files # shut.files0 => (shut.bind = "ok" /\ shut.listener # "none")

\* The port was in use by another daemon whose files are in the directory;
\* the daemon has exited with 1 and the files are still the other's.
C37_Witness ==
    /\ shut.st = "exited"
    /\ shut.bind = "EADDRINUSE"
    /\ shut.code = 1
    /\ shut.files = [pid |-> "other", port |-> "other", marker |-> "other"]

\* A daemon has bound its port and written the three files.
C37_BoundCase ==
    /\ shut.st = "up"
    /\ shut.tls
    /\ shut.files = [pid |-> "own", port |-> "own", marker |-> "own"]

=============================================================================
